---- MODULE Spec2Model ----
(***************************************************************************)
(* A model of the Brainfuck compiler and interpreter.                      *)
(*                                                                         *)
(* The pattern-recognizing compiler, the twelve-opcode interpreter and the *)
(* two-ended tape are those of src/unnamed/part_003.  The unoptimized      *)
(* eight-opcode compiler and interpreter of src/brainfuck.cc serve as the  *)
(* reference that executes source characters one at a time.                *)
(*                                                                         *)
(* Indices are zero-based as in the code; at(ops, k) is ops[k].            *)
(***************************************************************************)
EXTENDS Integers, Sequences, FiniteSets, TLC

VARIABLES
    ops,         \* the source buffer handed to compile (stored as runs, see at)
    i,           \* compile: the cursor into ops
    bytecode,    \* compile: the instruction sequence built so far
    loop_stack,  \* compile: indices of the open JUMP_FWD, top last
    phase,       \* "compile" | "run" | "done" | "fault" | "undefined" |
                 \* "dumped" | "exited" | "aborted"
    tape,        \* the interpreter's TwoEndedTape
    pc,          \* interprete: the program counter
    out,         \* the bytes written to standard output
    flushed,     \* how many of them have left the stdio buffer for the host
    inlog,       \* the values std::cin.get() has returned so far
    steps,       \* number of instructions executed (bounded by MaxSteps),
                 \* or -1 in the runs that are not counted
    nbytecode,   \* reference: the sequence compiled by brainfuck.cc
    ntape,       \* reference: its tape
    npc,         \* reference: its program counter
    nphase       \* reference: "idle" | "compile" | "run" | "done" | "fault" |
                 \* "undefined"

vars == <<ops, i, bytecode, loop_stack, phase, tape, pc, out, flushed, inlog, steps,
          nbytecode, ntape, npc, nphase>>

compilerVars == <<i, bytecode, loop_stack>>
runVars == <<tape, pc, out, flushed, inlog, steps>>
referenceVars == <<nbytecode, ntape, npc, nphase>>

----------------------------------------------------------------------------
(* Bounds of the model *)

\* longest source of the exhaustively enumerated sources
MaxLen == 3
\* instructions one interpretation may execute
MaxSteps == 24
\* instructions one compilation may emit
MaxCode == 64
\* the most values the 8-opcode interpreter reads from standard input
MaxInput == 4

(* Program constants *)

TAPE_SIZE == 20000
\* number of values of uint16_t (repeated_char_count, moveRightBy's n)
UINT16_RANGE == 65536
\* std::char_traits<char>::eof(), returned by std::cin.get() at end of input
EOF == -1

Byte == 0..255

----------------------------------------------------------------------------
(* The source buffer.  A buffer is stored as a sequence of runs, each a     *)
(* character repeated n >= 1 times, so that a buffer of 65536 equal         *)
(* characters is one run; size and at give the vector's size() and          *)
(* operator[].                                                              *)

Run(c, n) == [c |-> c, n |-> n]

RECURSIVE size(_)
size(b) == IF b = <<>> THEN 0 ELSE Head(b).n + size(Tail(b))

RECURSIVE at(_, _)
at(b, k) == IF k < Head(b).n THEN Head(b).c ELSE at(Tail(b), k - Head(b).n)

\* a buffer given character by character
Buffer(s) == [k \in 1..Len(s) |-> Run(s[k], 1)]

\* where a loop `while (k < hi && ...) k++` stops: the least of the indices
\* S below hi at which its condition fails, hi when there is none
Least(S, hi) ==
    CHOOSE k \in S \cup {hi} : \A j \in S \cup {hi} : k <= j

----------------------------------------------------------------------------
(* TwoEndedTape.  right and left hold TAPE_SIZE cells each, all zero at     *)
(* construction; an array is stored as the function of its nonzero cells.   *)

Zeros == [x \in {} |-> 0]

Rd(arr, k) == IF k \in DOMAIN arr THEN arr[k] ELSE 0

Wr(arr, k, v) ==
    IF v = 0
    THEN [x \in (DOMAIN arr) \ {k} |-> arr[x]]
    ELSE [x \in (DOMAIN arr) \cup {k} |-> IF x = k THEN v ELSE arr[x]]

NewTape == [right |-> Zeros, left |-> Zeros, position |-> TAPE_SIZE]

\* the head's signed offset
Offset(t) == t.position - TAPE_SIZE

\* the current cell lies inside right or left
InArrays(t) == t.position >= 0 /\ t.position < 2 * TAPE_SIZE

Ok(t) == [tape |-> t, thrown |-> "none"]
Throw(t, what) == [tape |-> t, thrown |-> what]

\* position < 2 * TAPE_SIZE - n in size_t arithmetic: when n exceeds
\* 2 * TAPE_SIZE the difference wraps to SIZE_MAX + 1 - (n - 2 * TAPE_SIZE),
\* which is above every position the model reaches
RightLimitAbove(position, n) ==
    IF n <= 2 * TAPE_SIZE THEN position < 2 * TAPE_SIZE - n ELSE TRUE

moveRightBy(t, n) ==
    IF RightLimitAbove(t.position, n)
    THEN Ok([t EXCEPT !.position = @ + n])
    ELSE Throw(t, "overflow")

\* a move to the left by one cell whatever n is
moveLeftBy_one(t, n) ==
    IF t.position >= n
    THEN Ok([t EXCEPT !.position = @ - 1])
    ELSE Throw(t, "underflow")

\* a move to the left that refuses to arrive on the leftmost cell
moveLeftBy_strict(t, n) ==
    IF t.position > n
    THEN Ok([t EXCEPT !.position = @ - n])
    ELSE Throw(t, "underflow")

moveLeftBy(t, n) ==
    IF t.position >= n
    THEN Ok([t EXCEPT !.position = @ - n])
    ELSE Throw(t, "underflow")

\* an addition that keeps the sum as it is, without the cell's width
add_unwrapped(t, x) ==
    IF t.position >= TAPE_SIZE
    THEN [t EXCEPT !.right = Wr(@, t.position - TAPE_SIZE, Rd(@, t.position - TAPE_SIZE) + x)]
    ELSE [t EXCEPT !.left = Wr(@, TAPE_SIZE - 1 - t.position,
                               Rd(@, TAPE_SIZE - 1 - t.position) + x)]

add(t, x) ==
    IF t.position >= TAPE_SIZE
    THEN [t EXCEPT !.right = Wr(@, t.position - TAPE_SIZE,
                                (Rd(@, t.position - TAPE_SIZE) + x) % 256)]
    ELSE [t EXCEPT !.left = Wr(@, TAPE_SIZE - 1 - t.position,
                               (Rd(@, TAPE_SIZE - 1 - t.position) + x) % 256)]

\* a set_curr that stores the int it is called with
set_curr_unconverted(t, val) ==
    IF t.position >= TAPE_SIZE
    THEN [t EXCEPT !.right = Wr(@, t.position - TAPE_SIZE, val)]
    ELSE [t EXCEPT !.left = Wr(@, TAPE_SIZE - 1 - t.position, val)]

\* val arrives converted to unsigned char
set_curr(t, val) ==
    IF t.position >= TAPE_SIZE
    THEN [t EXCEPT !.right = Wr(@, t.position - TAPE_SIZE, val % 256)]
    ELSE [t EXCEPT !.left = Wr(@, TAPE_SIZE - 1 - t.position, val % 256)]

\* a get_curr that looks up the cells left of the origin in right
get_curr_folded(t) ==
    IF t.position >= TAPE_SIZE
    THEN Rd(t.right, t.position - TAPE_SIZE)
    ELSE Rd(t.right, TAPE_SIZE - 1 - t.position)

get_curr(t) ==
    IF t.position >= TAPE_SIZE
    THEN Rd(t.right, t.position - TAPE_SIZE)
    ELSE Rd(t.left, TAPE_SIZE - 1 - t.position)

\* the cell at signed offset p
CellAt(t, p) == get_curr([t EXCEPT !.position = p + TAPE_SIZE])

----------------------------------------------------------------------------
(* Instructions *)

Instruction(op, jump_ref, value) ==
    [op |-> op, jump_ref |-> jump_ref, value |-> value]

OpCode == {"OUTPUT", "INPUT", "JUMP_FWD", "JUMP_BACK", "SET_ZERO", "ADD_VAL",
           "MV_POS", "ADD_TO_NEXT", "MULTIPLY_MV", "SET_VAL", "SCAN_RIGHT",
           "SCAN_LEFT"}

\* a tag that is the same for every opcode
Tag_constant(op) == 0

\* the enumerator's value, which static_cast<int>(bytecode[pc].op) and
\* static_cast<uint16_t>(instr.op) yield
Tag(op) ==
    CASE op = "OUTPUT" -> 0
      [] op = "INPUT" -> 1
      [] op = "JUMP_FWD" -> 2
      [] op = "JUMP_BACK" -> 3
      [] op = "SET_ZERO" -> 4
      [] op = "ADD_VAL" -> 5
      [] op = "MV_POS" -> 6
      [] op = "ADD_TO_NEXT" -> 7
      [] op = "MULTIPLY_MV" -> 8
      [] op = "SET_VAL" -> 9
      [] op = "SCAN_RIGHT" -> 10
      [] op = "SCAN_LEFT" -> 11

----------------------------------------------------------------------------
(* DirectThreadingCompiler: the pattern predicates *)

\* the bytes of a source: the eight commands and a comment byte
Alphabet == {">", "<", "+", "-", ".", ",", "[", "]", "x"}

PatternCheckResults(found, val, len_of_pattern) ==
    [found |-> found, val |-> val, len_of_pattern |-> len_of_pattern]

NotFound == PatternCheckResults(FALSE, 0, 0)

\* where a loop `while (i < ops.size() && (ops[i] == '+' || ops[i] == '-')) i++`
\* started at from leaves i
SignRunEnd(b, from) ==
    Least({k \in from..(size(b) - 1) : at(b, k) \notin {"+", "-"}}, size(b))

\* a sum that counts every character of the run as +1
SignRunSum_unsigned(b, from, to) == to - from

\* what the same loop accumulates with `+= (ops[i] == '+') ? 1 : -1`
SignRunSum(b, from, to) ==
    Cardinality({k \in from..(to - 1) : at(b, k) = "+"})
    - Cardinality({k \in from..(to - 1) : at(b, k) = "-"})

is_set_zero_pattern(b, start) ==
    IF start + 2 >= size(b)
    THEN FALSE
    ELSE /\ at(b, start) = "["
         /\ at(b, start + 1) \in {"-", "+"}
         /\ at(b, start + 2) = "]"

is_scan_pattern(b, pos) ==
    IF pos + 2 >= size(b) THEN NotFound
    ELSE IF at(b, pos) # "[" THEN NotFound
    ELSE IF at(b, pos + 1) \notin {">", "<"} THEN NotFound
    ELSE IF at(b, pos + 2) # "]" THEN NotFound
    ELSE PatternCheckResults(TRUE, IF at(b, pos + 1) = ">" THEN 1 ELSE 0, 3)

\* the guard admits pos + 5 = ops.size(), where ops[pos + 5] is a read one
\* past the buffer
ReadsPastEnd(b, pos) ==
    /\ pos + 4 < size(b)
    /\ pos + 5 >= size(b)
    /\ at(b, pos) = "[" /\ at(b, pos + 1) = "-" /\ at(b, pos + 2) = ">"
    /\ at(b, pos + 3) = "+" /\ at(b, pos + 4) = "<"

\* the bytes such a read may find: a ']' or any other byte
PastEnd(b, pos) == IF ReadsPastEnd(b, pos) THEN {"]", "?"} ELSE {"?"}

\* g is what a read one past the buffer finds
is_add_to_next_pattern(b, pos, g) ==
    IF pos + 4 >= size(b)
    THEN FALSE
    ELSE /\ at(b, pos) = "[" /\ at(b, pos + 1) = "-" /\ at(b, pos + 2) = ">"
         /\ at(b, pos + 3) = "+" /\ at(b, pos + 4) = "<"
         /\ (IF pos + 5 < size(b) THEN at(b, pos + 5) ELSE g) = "]"

is_multiply_move_pattern(b, pos) ==
    IF \/ pos + 4 >= size(b)
       \/ at(b, pos) # "["
       \/ at(b, pos + 1) # "-"
       \/ at(b, pos + 2) # ">"
       \/ at(b, pos + 3) \notin {"+", "-"}
    THEN NotFound
    ELSE LET e == SignRunEnd(b, pos + 3)
             multiplier == SignRunSum(b, pos + 3, e)
         IN IF \/ e >= size(b)
               \/ at(b, e) # "<"
               \/ e + 1 >= size(b)
               \/ at(b, e + 1) # "]"
            THEN NotFound
            ELSE PatternCheckResults(TRUE, multiplier, e + 2 - pos)

is_set_value_pattern(b, pos) ==
    IF pos + 2 >= size(b) THEN NotFound
    ELSE IF at(b, pos) # "[" \/ at(b, pos + 1) # "-" \/ at(b, pos + 2) # "]"
    THEN NotFound
    ELSE LET e == SignRunEnd(b, pos + 3)
             value == SignRunSum(b, pos + 3, e)
         IN IF value # 0
            THEN PatternCheckResults(TRUE, value, e - pos)
            ELSE NotFound

\* the count the loop `while (start + count < ops.size() &&
\* ops[start + count] == target) count++` ends with, from count = 1
count_repeated_chars(b, start, target) ==
    Least({count \in 1..(size(b) - start - 1) : at(b, start + count) # target},
          size(b) - start)

\* the value stored in `uint16_t repeated_char_count`
ToUint16(n) == n % UINT16_RANGE

----------------------------------------------------------------------------
(* DirectThreadingCompiler::compile.  Each dispatch label is an operator    *)
(* from the locals of compile (i, bytecode, loop_stack) to their values     *)
(* when the label's NEXT_CHAR_N has moved the cursor.                       *)

Locals(cursor, code, stack) == [i |-> cursor, bytecode |-> code, loop_stack |-> stack]

push_back(c, instr) == [c EXCEPT !.bytecode = Append(@, instr)]

\* i += n; the test i < ops.size() that follows is Returned
NEXT_CHAR_N(c, n) == [c EXCEPT !.i = @ + n]

Returned(b, c) == ~(c.i < size(b))

parse_mv_right(b, c) ==
    LET repeated_char_count == ToUint16(count_repeated_chars(b, c.i, ">"))
    IN NEXT_CHAR_N(push_back(c, Instruction("MV_POS", 0, repeated_char_count)),
                   repeated_char_count)

parse_mv_left(b, c) ==
    LET repeated_char_count == ToUint16(count_repeated_chars(b, c.i, "<"))
    IN NEXT_CHAR_N(push_back(c, Instruction("MV_POS", 0, -repeated_char_count)),
                   repeated_char_count)

parse_inc_val(b, c) ==
    LET repeated_char_count == ToUint16(count_repeated_chars(b, c.i, "+"))
    IN NEXT_CHAR_N(push_back(c, Instruction("ADD_VAL", 0, repeated_char_count)),
                   repeated_char_count)

parse_dec_val(b, c) ==
    LET repeated_char_count == ToUint16(count_repeated_chars(b, c.i, "-"))
    IN NEXT_CHAR_N(push_back(c, Instruction("ADD_VAL", 0, -repeated_char_count)),
                   repeated_char_count)

parse_output(b, c) == NEXT_CHAR_N(push_back(c, Instruction("OUTPUT", 0, 0)), 1)

parse_input(b, c) == NEXT_CHAR_N(push_back(c, Instruction("INPUT", 0, 0)), 1)

\* the scan branch appends its instruction and, having no NEXT_CHAR_N, goes
\* on to the tests below it
scan_branch(b, c) ==
    LET pattern == is_scan_pattern(b, c.i)
    IN IF pattern.found
       THEN IF pattern.val # 0
            THEN push_back(c, Instruction("SCAN_RIGHT", 0, 0))
            ELSE push_back(c, Instruction("SCAN_LEFT", 0, 0))
       ELSE c

\* g is what a read one past the buffer finds
parse_jmp_fwd(b, c, g) ==
    LET set_value == is_set_value_pattern(b, c.i)
        scanned == scan_branch(b, c)
        multiply == is_multiply_move_pattern(b, c.i)
    IN IF set_value.found
       THEN NEXT_CHAR_N(push_back(c, Instruction("SET_VAL", 0, set_value.val)),
                        set_value.len_of_pattern)
       ELSE IF is_set_zero_pattern(b, c.i)
       THEN NEXT_CHAR_N(push_back(c, Instruction("SET_ZERO", 0, 0)), 3)
       ELSE IF is_add_to_next_pattern(b, c.i, g)
       THEN NEXT_CHAR_N(push_back(scanned, Instruction("ADD_TO_NEXT", 0, 0)), 6)
       ELSE IF multiply.found
       THEN NEXT_CHAR_N(push_back(scanned, Instruction("MULTIPLY_MV", 0, multiply.val)),
                        multiply.len_of_pattern)
       ELSE NEXT_CHAR_N(
                push_back([scanned EXCEPT !.loop_stack = Append(@, Len(scanned.bytecode))],
                          Instruction("JUMP_FWD", 0, 0)),
                1)

\* a pop that leaves the stack as it is
pop_nothing(stack) == stack

top(stack) == stack[Len(stack)]
pop(stack) == SubSeq(stack, 1, Len(stack) - 1)

\* a closing that emits the JUMP_BACK and forgets the target of its JUMP_FWD
close_loop_unpatched(c) ==
    [c EXCEPT !.bytecode = Append(c.bytecode, Instruction("JUMP_BACK", top(c.loop_stack), 0)),
              !.loop_stack = pop(c.loop_stack)]

\* the body of `if (!loop_stack.empty())`
close_loop(c) ==
    [c EXCEPT !.bytecode =
                  Append([c.bytecode EXCEPT ![top(c.loop_stack) + 1].jump_ref = Len(c.bytecode)],
                         Instruction("JUMP_BACK", top(c.loop_stack), 0)),
              !.loop_stack = pop(c.loop_stack)]

parse_jmp_back(b, c) ==
    NEXT_CHAR_N(IF c.loop_stack # <<>> THEN close_loop(c) ELSE c, 1)

parse_unknown(b, c) == NEXT_CHAR_N(c, 1)

----------------------------------------------------------------------------
(* The indices of ops that each function reads, in the order the code       *)
(* evaluates its conditions (&& and || stop at the first operand that       *)
(* decides)                                                                 *)

\* the indices from + 0 .. from + k read by a chain ops[from] == text[1] &&
\* ops[from + 1] == text[2] && ...: each is read when all before it matched
ChainReads(b, from, text) ==
    {from + k : k \in {m \in 0..(Len(text) - 1) :
                         \A j \in 0..(m - 1) :
                            from + j < size(b) /\ at(b, from + j) \in text[j + 1]}}

\* while (k < ops.size() && (ops[k] == '+' || ops[k] == '-')) k++: every index
\* of the run, and the index that ends it when that lies inside the buffer
SignRunReads(b, from) ==
    {k \in from..SignRunEnd(b, from) : k < size(b)}

reads_is_set_zero_pattern(b, start) ==
    IF start + 2 >= size(b) THEN {}
    ELSE ChainReads(b, start, <<{"["}, {"-", "+"}, {"]"}>>)

reads_is_scan_pattern(b, pos) ==
    IF pos + 2 >= size(b) THEN {}
    ELSE ChainReads(b, pos, <<{"["}, {">", "<"}, {"]"}>>)

reads_is_add_to_next_pattern(b, pos) ==
    IF pos + 4 >= size(b) THEN {}
    ELSE ChainReads(b, pos, <<{"["}, {"-"}, {">"}, {"+"}, {"<"}, {"]"}>>)

reads_is_multiply_move_pattern(b, pos) ==
    IF pos + 4 >= size(b) THEN {}
    ELSE LET head == ChainReads(b, pos, <<{"["}, {"-"}, {">"}, {"+", "-"}>>)
             k == SignRunEnd(b, pos + 3)
         IN IF ~(/\ at(b, pos) = "[" /\ at(b, pos + 1) = "-" /\ at(b, pos + 2) = ">"
                 /\ at(b, pos + 3) \in {"+", "-"})
            THEN head
            ELSE head \cup SignRunReads(b, pos + 3)
                      \cup (IF k < size(b) /\ at(b, k) = "<" /\ k + 1 < size(b)
                            THEN {k + 1} ELSE {})

reads_is_set_value_pattern(b, pos) ==
    IF pos + 2 >= size(b) THEN {}
    ELSE LET head == ChainReads(b, pos, <<{"["}, {"-"}, {"]"}>>)
         IN IF at(b, pos) = "[" /\ at(b, pos + 1) = "-" /\ at(b, pos + 2) = "]"
            THEN head \cup SignRunReads(b, pos + 3)
            ELSE head

\* while (start + count < ops.size() && ops[start + count] == target) count++
reads_count_repeated_chars(b, start, target) ==
    {k \in (start + 1)..(start + count_repeated_chars(b, start, target)) : k < size(b)}

\* what parse_jmp_fwd reads: each predicate it reaches before it leaves
reads_parse_jmp_fwd(b, pos) ==
    LET set_value == reads_is_set_value_pattern(b, pos)
        set_zero == reads_is_set_zero_pattern(b, pos)
        others == reads_is_scan_pattern(b, pos)
                    \cup reads_is_add_to_next_pattern(b, pos)
    IN IF is_set_value_pattern(b, pos).found THEN set_value
       ELSE IF is_set_zero_pattern(b, pos) THEN set_value \cup set_zero
       ELSE IF pos + 5 < size(b) /\ is_add_to_next_pattern(b, pos, "?")
       THEN set_value \cup set_zero \cup others
       ELSE set_value \cup set_zero \cup others \cup reads_is_multiply_move_pattern(b, pos)

\* what the label dispatched for ops[pos] reads, ops[pos] included
reads_dispatch(b, pos) ==
    {pos} \cup
    CASE at(b, pos) \in {">", "<", "+", "-"} -> reads_count_repeated_chars(b, pos, at(b, pos))
      [] at(b, pos) = "[" -> reads_parse_jmp_fwd(b, pos)
      [] OTHER -> {}

Commands == {">", "<", "+", "-", ".", ",", "[", "]"}

\* goto *dispatch_table[ops[i]]
dispatch(b, c, g) ==
    CASE at(b, c.i) = ">" -> parse_mv_right(b, c)
      [] at(b, c.i) = "<" -> parse_mv_left(b, c)
      [] at(b, c.i) = "+" -> parse_inc_val(b, c)
      [] at(b, c.i) = "-" -> parse_dec_val(b, c)
      [] at(b, c.i) = "." -> parse_output(b, c)
      [] at(b, c.i) = "," -> parse_input(b, c)
      [] at(b, c.i) = "[" -> parse_jmp_fwd(b, c, g)
      [] at(b, c.i) = "]" -> parse_jmp_back(b, c)
      [] OTHER -> parse_unknown(b, c)

\* compile run to its return (or until MaxCode instructions are emitted)
RECURSIVE compile_from(_, _, _)
compile_from(b, c, g) ==
    IF Returned(b, c) \/ Len(c.bytecode) >= MaxCode
    THEN c
    ELSE compile_from(b, dispatch(b, c, g), g)

compile(b, g) == compile_from(b, Locals(0, <<>>, <<>>), g)

----------------------------------------------------------------------------
(* compile as steps of the program, one action per dispatch label *)

\* control stands on the label that dispatch_table gives for a byte in chars
At(chars) ==
    /\ phase = "compile"
    /\ i < size(ops)
    /\ at(ops, i) \in chars
    /\ Len(bytecode) < MaxCode

\* the label has run: its locals are c, and compile returns or dispatches
Goto(c) ==
    /\ i' = c.i
    /\ bytecode' = c.bytecode
    /\ loop_stack' = c.loop_stack
    /\ phase' = IF Returned(ops, c) THEN "run" ELSE "compile"
    /\ UNCHANGED <<ops, runVars, referenceVars>>

Here == Locals(i, bytecode, loop_stack)

\* if (ops.empty()) return bytecode;
compile_empty ==
    /\ phase = "compile"
    /\ size(ops) = 0
    /\ phase' = "run"
    /\ UNCHANGED <<ops, compilerVars, runVars, referenceVars>>

goto_parse_mv_right == At({">"}) /\ Goto(parse_mv_right(ops, Here))

goto_parse_mv_left == At({"<"}) /\ Goto(parse_mv_left(ops, Here))

goto_parse_inc_val == At({"+"}) /\ Goto(parse_inc_val(ops, Here))

goto_parse_dec_val == At({"-"}) /\ Goto(parse_dec_val(ops, Here))

goto_parse_output == At({"."}) /\ Goto(parse_output(ops, Here))

goto_parse_input == At({","}) /\ Goto(parse_input(ops, Here))

goto_parse_jmp_fwd ==
    /\ At({"["})
    /\ \E g \in PastEnd(ops, i) : Goto(parse_jmp_fwd(ops, Here, g))

goto_parse_jmp_back == At({"]"}) /\ Goto(parse_jmp_back(ops, Here))

goto_parse_unknown == At(Alphabet \ Commands) /\ Goto(parse_unknown(ops, Here))

----------------------------------------------------------------------------
(* DirectThreadingInterpreter: what each handler does to the tape *)

\* the instruction at pc
Fetch == bytecode[pc + 1]

set_zero(t) == Ok(set_curr(t, 0))

set_val(t, value) == Ok(set_curr(t, value))

mv_pos(t, value) ==
    IF value >= 0
    THEN moveRightBy(t, ToUint16(value))
    ELSE moveLeftBy(t, ToUint16(-value))

\* an add-to-next that keeps the current cell
add_to_next_keeping(t) ==
    LET moved == moveRightBy(t, 1)
    IN IF moved.thrown # "none"
       THEN moved
       ELSE moveLeftBy(add(moved.tape, get_curr(t)), 1)

add_to_next(t) ==
    LET tmp == get_curr(t)
        moved == moveRightBy(set_curr(t, 0), 1)
    IN IF moved.thrown # "none"
       THEN moved
       ELSE moveLeftBy(add(moved.tape, tmp), 1)

\* a multiply-move that adds the cell once, whatever the multiplier
multiply_mv_once(t, value) ==
    LET tmp == get_curr(t)
        moved == moveRightBy(set_curr(t, 0), 1)
    IN IF moved.thrown # "none"
       THEN moved
       ELSE moveLeftBy(add(moved.tape, tmp), 1)

\* tmp * value is formed modulo 2^32 and added modulo 256
multiply_mv(t, value) ==
    LET tmp == get_curr(t)
        moved == moveRightBy(set_curr(t, 0), 1)
    IN IF moved.thrown # "none"
       THEN moved
       ELSE moveLeftBy(add(moved.tape, tmp * value), 1)

\* a scan to the right that gives up after one cell
scan_right_once(t) ==
    IF get_curr(t) # 0 THEN moveRightBy(t, 1) ELSE Ok(t)

RECURSIVE scan_right(_)
scan_right(t) ==
    IF get_curr(t) # 0
    THEN LET moved == moveRightBy(t, 1)
         IN IF moved.thrown # "none" THEN moved ELSE scan_right(moved.tape)
    ELSE Ok(t)

\* a scan to the left that stops on the leftmost cell instead of throwing
RECURSIVE scan_left_resting_on_the_edge(_)
scan_left_resting_on_the_edge(t) ==
    IF get_curr(t) # 0 /\ t.position > 0
    THEN scan_left_resting_on_the_edge([t EXCEPT !.position = @ - 1])
    ELSE Ok(t)

RECURSIVE scan_left(_)
scan_left(t) ==
    IF get_curr(t) # 0
    THEN LET moved == moveLeftBy(t, 1)
         IN IF moved.thrown # "none" THEN moved ELSE scan_left(moved.tape)
    ELSE Ok(t)

\* what std::cin.get() may return next: a byte, or EOF from then on
InputBytes == {0, 97}

CinGet ==
    IF inlog # <<>> /\ inlog[Len(inlog)] = EOF
    THEN {EOF}
    ELSE InputBytes \cup {EOF}

----------------------------------------------------------------------------
(* DirectThreadingInterpreter::interprete, one action per handler *)

\* the count of executed instructions after one more, where they are counted
Counted(n) == IF n < 0 THEN n ELSE n + 1

\* a NEXT that dispatches once more when pc has reached the size
NEXT_one_too_far(from) ==
    /\ pc' = from + 1
    /\ phase' = IF from + 1 <= Len(bytecode) THEN "run" ELSE "done"
    /\ steps' = Counted(steps)

\* if (++pc < bytecode.size()) DISPATCH; return;
NEXT(from) ==
    /\ pc' = from + 1
    /\ phase' = IF from + 1 < Len(bytecode) THEN "run" ELSE "done"
    /\ steps' = Counted(steps)

\* a table whose first two entries stand in each other's place
dispatch_table_exchanged ==
    <<"do_input", "do_output", "do_jmp_fwd", "do_jmp_back", "do_set_zero", "do_add_val",
      "do_mv_pos", "do_add_to_next", "do_multiply_mv", "do_set_val", "do_scan_right",
      "do_scan_left">>

\* the labels in the order of the table's initializer
dispatch_table ==
    <<"do_output", "do_input", "do_jmp_fwd", "do_jmp_back", "do_set_zero", "do_add_val",
      "do_mv_pos", "do_add_to_next", "do_multiply_mv", "do_set_val", "do_scan_right",
      "do_scan_left">>

\* goto *dispatch_table[static_cast<int>(bytecode[pc].op)]: the label reached
DISPATCH == dispatch_table[Tag(Fetch.op) + 1]

\* control has arrived at label, with the current cell inside the arrays
\* where the code under the label reads or writes it
Reached(label) ==
    /\ phase = "run"
    /\ pc < Len(bytecode)
    /\ DISPATCH = label
    /\ steps < MaxSteps
    /\ (label # "do_mv_pos" => InArrays(tape))

\* the instruction about to be executed has opcode op, with the current cell
\* inside the arrays
Handling(op) ==
    /\ phase = "run"
    /\ pc < Len(bytecode)
    /\ Fetch.op = op
    /\ steps < MaxSteps
    /\ (op # "MV_POS" => InArrays(tape))

\* the std::out_of_range thrown by the tape leaves interprete
Finish(result) ==
    /\ tape' = result.tape
    /\ IF result.thrown # "none"
       THEN phase' = "fault" /\ pc' = pc /\ steps' = Counted(steps)
       ELSE NEXT(pc)

\* if (bytecode.empty()) return;
interprete_empty ==
    /\ phase = "run"
    /\ bytecode = <<>>
    /\ phase' = "done"
    /\ UNCHANGED <<ops, compilerVars, runVars, referenceVars>>

\* putchar on the process's stdout, on which the program never calls setvbuf
\* or fflush: the byte joins the stream's buffer, and the library writes the
\* buffer out now (unbuffered, a newline on a line-buffered stream, a full
\* buffer) or keeps it, depending on what the host attached to stdout
putchar(c) ==
    /\ out' = Append(out, c)
    /\ flushed' \in {flushed, Len(out) + 1}

\* an output that writes the cell twice
do_output_twice ==
    /\ Reached("do_output")
    /\ out' = Append(Append(out, get_curr(tape)), get_curr(tape))
    /\ flushed' \in {flushed, Len(out) + 2}
    /\ NEXT(pc)
    /\ UNCHANGED <<ops, compilerVars, tape, inlog, referenceVars>>

do_output ==
    /\ Reached("do_output")
    /\ putchar(get_curr(tape))
    /\ NEXT(pc)
    /\ UNCHANGED <<ops, compilerVars, tape, inlog, referenceVars>>

do_input ==
    /\ Reached("do_input")
    /\ \E c \in CinGet :
        /\ tape' = set_curr(tape, c)
        /\ inlog' = Append(inlog, c)
    /\ NEXT(pc)
    /\ UNCHANGED <<ops, compilerVars, out, flushed, referenceVars>>

\* a forward jump that lands on its target instead of one past it
do_jmp_fwd_onto_target ==
    /\ Reached("do_jmp_fwd")
    /\ NEXT(IF get_curr(tape) = 0 THEN Fetch.jump_ref - 1 ELSE pc)
    /\ UNCHANGED <<ops, compilerVars, tape, out, flushed, inlog, referenceVars>>

do_jmp_fwd ==
    /\ Reached("do_jmp_fwd")
    /\ NEXT(IF get_curr(tape) = 0 THEN Fetch.jump_ref ELSE pc)
    /\ UNCHANGED <<ops, compilerVars, tape, out, flushed, inlog, referenceVars>>

\* a backward jump that jumps whatever the cell holds
do_jmp_back_unconditional ==
    /\ Reached("do_jmp_back")
    /\ NEXT(Fetch.jump_ref)
    /\ UNCHANGED <<ops, compilerVars, tape, out, flushed, inlog, referenceVars>>

\* a backward jump that never jumps: every loop body runs once
do_jmp_back_falling_through ==
    /\ Reached("do_jmp_back")
    /\ NEXT(pc)
    /\ UNCHANGED <<ops, compilerVars, tape, out, flushed, inlog, referenceVars>>

do_jmp_back ==
    /\ Reached("do_jmp_back")
    /\ NEXT(IF get_curr(tape) # 0 THEN Fetch.jump_ref ELSE pc)
    /\ UNCHANGED <<ops, compilerVars, tape, out, flushed, inlog, referenceVars>>

do_set_zero ==
    /\ Reached("do_set_zero")
    /\ Finish(set_zero(tape))
    /\ UNCHANGED <<ops, compilerVars, out, flushed, inlog, referenceVars>>

do_add_val ==
    /\ Reached("do_add_val")
    /\ Finish(Ok(add(tape, Fetch.value)))
    /\ UNCHANGED <<ops, compilerVars, out, flushed, inlog, referenceVars>>

do_mv_pos ==
    /\ Reached("do_mv_pos")
    /\ Finish(mv_pos(tape, Fetch.value))
    /\ UNCHANGED <<ops, compilerVars, out, flushed, inlog, referenceVars>>

do_add_to_next ==
    /\ Reached("do_add_to_next")
    /\ Finish(add_to_next(tape))
    /\ UNCHANGED <<ops, compilerVars, out, flushed, inlog, referenceVars>>

do_multiply_mv ==
    /\ Reached("do_multiply_mv")
    /\ Finish(multiply_mv(tape, Fetch.value))
    /\ UNCHANGED <<ops, compilerVars, out, flushed, inlog, referenceVars>>

do_set_val ==
    /\ Reached("do_set_val")
    /\ Finish(set_val(tape, Fetch.value))
    /\ UNCHANGED <<ops, compilerVars, out, flushed, inlog, referenceVars>>

do_scan_right ==
    /\ Reached("do_scan_right")
    /\ Finish(scan_right(tape))
    /\ UNCHANGED <<ops, compilerVars, out, flushed, inlog, referenceVars>>

do_scan_left ==
    /\ Reached("do_scan_left")
    /\ Finish(scan_left(tape))
    /\ UNCHANGED <<ops, compilerVars, out, flushed, inlog, referenceVars>>

\* a handler that reads or writes the current cell while the head is outside
\* both arrays: the behaviour is undefined and the model follows it no further
undefined_access ==
    /\ phase = "run"
    /\ pc < Len(bytecode)
    /\ DISPATCH # "do_mv_pos"
    /\ ~InArrays(tape)
    /\ phase' = "undefined"
    /\ UNCHANGED <<ops, compilerVars, runVars, referenceVars>>

interprete ==
    \/ interprete_empty
    \/ do_output
    \/ do_input
    \/ do_jmp_fwd
    \/ do_jmp_back
    \/ do_set_zero
    \/ do_add_val
    \/ do_mv_pos
    \/ do_add_to_next
    \/ do_multiply_mv
    \/ do_set_val
    \/ do_scan_right
    \/ do_scan_left
    \/ undefined_access

----------------------------------------------------------------------------
(* print_bytecode, which main calls instead of interprete under -c *)

\* for (instr : bytecode) putchar(...)
print_bytecode(code) == [k \in 1..Len(code) |-> Tag(code[k].op) % 256]

\* compile has returned and no instruction has been executed
Compiled == phase = "run" /\ pc = 0 /\ steps = 0

\* main with should_print_bytecode set: the sequence is dumped, main returns
main_print_bytecode ==
    /\ Compiled
    /\ out' = out \o print_bytecode(bytecode)
    /\ flushed' \in 0..Len(out')
    /\ phase' = "dumped"
    /\ UNCHANGED <<ops, compilerVars, tape, pc, inlog, steps, referenceVars>>

\* return 0: interprete or print_bytecode has returned; leaving main runs
\* exit, which writes out what stdout still buffers
main_return ==
    /\ phase \in {"done", "dumped"}
    /\ phase' = "exited"
    /\ flushed' = Len(out)
    /\ UNCHANGED <<ops, compilerVars, tape, pc, out, inlog, steps, referenceVars>>

\* no handler encloses interprete: the std::out_of_range reaches
\* std::terminate, which aborts the process without returning from main;
\* whether abort writes out what stdout still buffers is the implementation's
\* choice
main_uncaught ==
    /\ phase = "fault"
    /\ phase' = "aborted"
    /\ flushed' \in {flushed, Len(out)}
    /\ UNCHANGED <<ops, compilerVars, tape, pc, out, inlog, steps, referenceVars>>

----------------------------------------------------------------------------
(* The sources compiled and run *)

\* every source of at most MaxLen characters
ShortSources == UNION {[1..n -> Alphabet] : n \in 0..MaxLen}

Chars(n, c) == [k \in 1..n |-> c]

\* sources with the loop patterns, with long runs, or left unbalanced
LongSources == {
    <<"[", "-", ">", "+", "<", "]">>,
    <<"+", "+", "[", "-", ">", "+", "+", "+", "<", "]", ">", ".">>,
    <<"-", "[", "-", ">", "-", "-", "<", "]", ">", ".">>,
    <<"+", "[", "-", ">", "+", "-", "<", "]">>,
    <<"+", "[", "-", "]", "+", "+", ".">>,
    <<"[", "-", "]", "-", "-", ".">>,
    <<"+", "[", "-", "]", "+", "-", ".">>,
    <<"+", ">", "+", ">", "+", ">", ">", "+", "<", "<", "<", "<", "[", ">", "]">>,
    <<"+", ">", "+", "[", "<", "]">>,
    <<"+", "[", "-", ">", "+", "<">>,
    <<"+", "+", "x", "+", ".">>,
    <<"+", "[", "x", "-", "]">>,
    <<"+", "[", "[", "-", "]", "]">>,
    <<"+", "[", ">", "+", "[", "-", "<", "-", ">", "]", "<", "]">>,
    <<"+", "+", "[", ">", "+", "<", "-", "]", ">", ".">>,
    <<",", "[", ".", ",", "]">>,
    <<"+", "+", "+", "+", "[", "-", ">", "+", "+", "+", "<", "]", ">", ".">>,
    <<"+", "+", "+", "[", "-", ">", "-", "<", "]", ">", ".">>,
    <<">", "+", "<", "+", "+", "[", "-", ">", "+", "+", "-", "<", "]", ">", ".">>,
    <<"-", "[", "-", ">", "-", "-", "-", "+", "<", "]", ">", ".">>,
    <<"[", "-", ">", "+", "+", "<", "]">>,
    <<"+", "+", "+", "[", "-", "]", ".">>,
    <<"[", "-", "]", "]", "+">>
}

Sources ==
    {Buffer(s) : s \in ShortSources \cup LongSources}
    \cup {
        <<Run(">", TAPE_SIZE - 1)>> \o Buffer(<<"[", "-", ">", "+", "<", "]">>),
        <<Run(">", TAPE_SIZE - 1)>> \o Buffer(<<"[", "-", ">", "+", "+", "<", "]">>),
        <<Run(">", TAPE_SIZE - 1), Run("+", 1)>> \o Buffer(<<"[", "-", ">", "+", "<", "]">>),
        <<Run(">", TAPE_SIZE - 1), Run("+", 1), Run(">", 1)>>,
        <<Run("<", TAPE_SIZE), Run("+", 1), Run("<", 1)>>,
        <<Run(">", 2 * TAPE_SIZE), Run(".", 1)>>,
        <<Run(">", 2 * TAPE_SIZE + 1), Run(".", 1)>>,
        <<Run(">", 2 * TAPE_SIZE + 1), Run("<", 2 * TAPE_SIZE + 1), Run("+", 1)>>,
        <<Run(">", UINT16_RANGE - 1), Run("<", UINT16_RANGE - 1)>>,
        <<Run("+", UINT16_RANGE - 1), Run(".", 1)>>,
        <<Run(">", UINT16_RANGE)>>,
        <<Run("+", UINT16_RANGE + 1), Run(".", 1)>>,
        <<Run("+", 256), Run(".", 1)>>,
        <<Run("+", 3), Run("-", 259), Run(".", 1)>>,
        <<Run("+", 1), Run(".", 1), Run("<", TAPE_SIZE + 1)>>,
        <<Run(".", 2), Run(">", TAPE_SIZE)>>,
        <<Run("<", TAPE_SIZE), Run(",", 2), Run(".", 1)>>,
        <<Run(">", TAPE_SIZE - 1), Run("+", 1), Run(",", 1), Run(".", 1)>>
    }

----------------------------------------------------------------------------
(* The program: compile the source, then interpret the result on a fresh    *)
(* tape                                                                     *)

Init ==
    /\ ops \in Sources
    /\ i = 0
    /\ bytecode = <<>>
    /\ loop_stack = <<>>
    /\ phase = "compile"
    /\ tape = NewTape
    /\ pc = 0
    /\ out = <<>>
    /\ flushed = 0
    /\ inlog = <<>>
    /\ steps = 0
    /\ nbytecode = <<>>
    /\ ntape = NewTape
    /\ npc = 0
    /\ nphase = "idle"

Next ==
    \/ compile_empty
    \/ goto_parse_mv_right
    \/ goto_parse_mv_left
    \/ goto_parse_inc_val
    \/ goto_parse_dec_val
    \/ goto_parse_output
    \/ goto_parse_input
    \/ goto_parse_jmp_fwd
    \/ goto_parse_jmp_back
    \/ goto_parse_unknown
    \/ interprete_empty
    \/ do_output
    \/ do_input
    \/ do_jmp_fwd
    \/ do_jmp_back
    \/ do_set_zero
    \/ do_add_val
    \/ do_mv_pos
    \/ do_add_to_next
    \/ do_multiply_mv
    \/ do_set_val
    \/ do_scan_right
    \/ do_scan_left
    \/ undefined_access
    \/ main_print_bytecode
    \/ main_return
    \/ main_uncaught

Spec == Init /\ [][Next]_vars

----------------------------------------------------------------------------
(* The unoptimized compiler and interpreter of src/brainfuck.cc: one        *)
(* instruction per command character, executed one at a time.               *)

bf_Instruction(op, jump_ref) == [op |-> op, jump_ref |-> jump_ref]

moveRight(t) ==
    IF t.position < 2 * TAPE_SIZE - 1
    THEN Ok([t EXCEPT !.position = @ + 1])
    ELSE Throw(t, "overflow")

moveLeft(t) ==
    IF t.position > 0
    THEN Ok([t EXCEPT !.position = @ - 1])
    ELSE Throw(t, "underflow")

increment(t) ==
    IF t.position >= TAPE_SIZE
    THEN [t EXCEPT !.right = Wr(@, t.position - TAPE_SIZE,
                                (Rd(@, t.position - TAPE_SIZE) + 1) % 256)]
    ELSE [t EXCEPT !.left = Wr(@, TAPE_SIZE - 1 - t.position,
                               (Rd(@, TAPE_SIZE - 1 - t.position) + 1) % 256)]

decrement(t) ==
    IF t.position >= TAPE_SIZE
    THEN [t EXCEPT !.right = Wr(@, t.position - TAPE_SIZE,
                                (Rd(@, t.position - TAPE_SIZE) - 1) % 256)]
    ELSE [t EXCEPT !.left = Wr(@, TAPE_SIZE - 1 - t.position,
                               (Rd(@, TAPE_SIZE - 1 - t.position) - 1) % 256)]

\* one label of compile, followed by its NEXT_CHAR
bf_parse(b, c) ==
    LET ch == at(b, c.i)
        emitted ==
            CASE ch = ">" -> push_back(c, bf_Instruction("MV_RIGHT", 0))
              [] ch = "<" -> push_back(c, bf_Instruction("MV_LEFT", 0))
              [] ch = "+" -> push_back(c, bf_Instruction("INC_VAL", 0))
              [] ch = "-" -> push_back(c, bf_Instruction("DEC_VAL", 0))
              [] ch = "." -> push_back(c, bf_Instruction("OUTPUT", 0))
              [] ch = "," -> push_back(c, bf_Instruction("INPUT", 0))
              [] ch = "[" -> push_back([c EXCEPT !.loop_stack = Append(@, Len(c.bytecode))],
                                       bf_Instruction("JUMP_FWD", 0))
              [] ch = "]" ->
                    IF c.loop_stack # <<>>
                    THEN [c EXCEPT
                            !.bytecode =
                                Append([c.bytecode EXCEPT
                                           ![top(c.loop_stack) + 1].jump_ref = Len(c.bytecode)],
                                       bf_Instruction("JUMP_BACK", top(c.loop_stack))),
                            !.loop_stack = pop(c.loop_stack)]
                    ELSE c
              [] OTHER -> c
    IN [emitted EXCEPT !.i = @ + 1]

RECURSIVE bf_compile_from(_, _)
bf_compile_from(b, c) ==
    IF c.i < size(b) THEN bf_compile_from(b, bf_parse(b, c)) ELSE c

bf_compile(b) == bf_compile_from(b, Locals(0, <<>>, <<>>)).bytecode

\* the instruction at the reference's pc
bf_Fetch == nbytecode[npc + 1]

bf_Handling(op) ==
    /\ nphase = "run"
    /\ npc < Len(nbytecode)
    /\ bf_Fetch.op = op

\* ++pc; if (pc < bytecode.size()) DISPATCH; return;
bf_NEXT(from) ==
    /\ npc' = from + 1
    /\ nphase' = IF from + 1 < Len(nbytecode) THEN "run" ELSE "done"

bf_Finish(result) ==
    /\ ntape' = result.tape
    /\ IF result.thrown # "none"
       THEN nphase' = "fault" /\ npc' = npc
       ELSE bf_NEXT(npc)

mainVars == <<ops, compilerVars, phase, runVars>>

\* the compiled program has ended
Ended == phase \in {"done", "fault", "undefined"}

\* main of brainfuck.cc: compile the source and hand the sequence to
\* interprete
bf_main ==
    /\ nphase = "idle"
    /\ nbytecode' = bf_compile(ops)
    /\ nphase' = "run"
    /\ UNCHANGED <<mainVars, ntape, npc>>

\* main's call of compile, once the program under comparison has ended
bf_main_compile == Ended /\ bf_main

bf_do_mv_right ==
    /\ bf_Handling("MV_RIGHT")
    /\ bf_Finish(moveRight(ntape))
    /\ UNCHANGED <<mainVars, nbytecode>>

bf_do_mv_left ==
    /\ bf_Handling("MV_LEFT")
    /\ bf_Finish(moveLeft(ntape))
    /\ UNCHANGED <<mainVars, nbytecode>>

bf_do_inc_val ==
    /\ bf_Handling("INC_VAL")
    /\ bf_Finish(Ok(increment(ntape)))
    /\ UNCHANGED <<mainVars, nbytecode>>

bf_do_dec_val ==
    /\ bf_Handling("DEC_VAL")
    /\ bf_Finish(Ok(decrement(ntape)))
    /\ UNCHANGED <<mainVars, nbytecode>>

bf_do_jmp_fwd ==
    /\ bf_Handling("JUMP_FWD")
    /\ bf_NEXT(IF get_curr(ntape) = 0 THEN bf_Fetch.jump_ref ELSE npc)
    /\ UNCHANGED <<mainVars, nbytecode, ntape>>

bf_do_jmp_back ==
    /\ bf_Handling("JUMP_BACK")
    /\ bf_NEXT(IF get_curr(ntape) # 0 THEN bf_Fetch.jump_ref ELSE npc)
    /\ UNCHANGED <<mainVars, nbytecode, ntape>>

bf_do_output ==
    /\ bf_Handling("OUTPUT")
    /\ putchar(get_curr(ntape))
    /\ bf_NEXT(npc)
    /\ UNCHANGED <<ops, compilerVars, phase, tape, pc, inlog, steps, nbytecode, ntape>>

\* do_input has no NEXT: control runs on into do_jmp_fwd, which tests the
\* cell just stored and takes jump_ref from the INPUT instruction
bf_do_input ==
    /\ bf_Handling("INPUT")
    /\ Len(inlog) < MaxInput
    /\ \E c \in CinGet :
        /\ ntape' = set_curr(ntape, c)
        /\ inlog' = Append(inlog, c)
    /\ bf_NEXT(IF get_curr(ntape') = 0 THEN bf_Fetch.jump_ref ELSE npc)
    /\ UNCHANGED <<ops, compilerVars, phase, tape, pc, out, flushed, steps, nbytecode>>

\* interprete has no test for an empty sequence: its first DISPATCH reads
\* bytecode[0] of a vector without elements and jumps through the table entry
\* that value selects; the behaviour is undefined and the model follows it no
\* further
bf_dispatch_outside ==
    /\ nphase = "run"
    /\ ~(npc < Len(nbytecode))
    /\ nphase' = "undefined"
    /\ UNCHANGED <<mainVars, nbytecode, ntape, npc>>

----------------------------------------------------------------------------
(* The program of src/brainfuck.cc on its own: sources that read and write, *)
(* and sources without a command.                                           *)

BfSources == {
    <<>>,
    <<"x">>,
    <<"x", "y">>,
    <<",">>,
    <<",", ".">>,
    <<"+", ",">>,
    <<"+", ".", ",", ".">>,
    <<",", "[", ".", ",", "]">>,
    <<">", ",", "<", ".">>,
    <<"-", ",", "+", ".">>,
    <<"+", "[", ",", "]">>,
    <<"<", ",", ",", ".">>
}

BfInit ==
    /\ ops \in {Buffer(s) : s \in BfSources}
    /\ i = 0
    /\ bytecode = <<>>
    /\ loop_stack = <<>>
    /\ phase = "compile"
    /\ tape = NewTape
    /\ pc = 0
    /\ out = <<>>
    /\ flushed = 0
    /\ inlog = <<>>
    /\ steps = 0
    /\ nbytecode = <<>>
    /\ ntape = NewTape
    /\ npc = 0
    /\ nphase = "idle"

BfNext ==
    \/ bf_main
    \/ bf_dispatch_outside
    \/ bf_do_mv_right
    \/ bf_do_mv_left
    \/ bf_do_inc_val
    \/ bf_do_dec_val
    \/ bf_do_output
    \/ bf_do_input
    \/ bf_do_jmp_fwd
    \/ bf_do_jmp_back

BfSpec == BfInit /\ [][BfNext]_vars

----------------------------------------------------------------------------
(* The loop patterns run from a given tape, compiled and as written.  Both  *)
(* runs start from the same tape, the head on a cell of the given offset    *)
(* and the cells around it holding the given values.                        *)

PatternSources == {
    <<"[", "-", "]">>,
    <<"[", "+", "]">>,
    <<"[", "-", "]", "+", "+">>,
    <<"[", "-", "]", "-">>,
    <<"[", "-", "]", "+", "-">>,
    <<"[", ">", "]">>,
    <<"[", "<", "]">>,
    <<"[", "-", ">", "+", "<", "]">>,
    <<"[", "-", ">", "+", "+", "<", "]">>,
    <<"[", "-", ">", "-", "<", "]">>,
    <<"[", "-", ">", "+", "-", "<", "]">>
}

\* head offsets: both edges, the origin and its neighbours
StartOffsets == {-TAPE_SIZE, -TAPE_SIZE + 1, -1, 0, TAPE_SIZE - 2, TAPE_SIZE - 1}

CurrentValues == {0, 1, 2, 255}
LeftValues == {0, 1}
RightValues == {0, 255}

\* the tape with the head at offset p on a cell holding v, the cells to its
\* left and right (where the tape has them) holding l and r
StartTape(p, l, v, r) ==
    LET here == [NewTape EXCEPT !.position = p + TAPE_SIZE]
        withLeft == IF p > -TAPE_SIZE
                    THEN set_curr([here EXCEPT !.position = @ - 1], l)
                    ELSE here
        withRight == IF p < TAPE_SIZE - 1
                     THEN set_curr([withLeft EXCEPT !.position = p + TAPE_SIZE + 1], r)
                     ELSE withLeft
    IN set_curr([withRight EXCEPT !.position = p + TAPE_SIZE], v)

StartTapes ==
    {StartTape(p, l, v, r) :
        p \in StartOffsets, l \in LeftValues, v \in CurrentValues, r \in RightValues}

EquivInit ==
    /\ ops \in {Buffer(s) : s \in PatternSources}
    /\ i = 0
    /\ bytecode = <<>>
    /\ loop_stack = <<>>
    /\ phase = "compile"
    /\ tape \in StartTapes
    /\ pc = 0
    /\ out = <<>>
    /\ flushed = 0
    /\ inlog = <<>>
    /\ steps = 0
    /\ nbytecode = <<>>
    /\ ntape = tape
    /\ npc = 0
    /\ nphase = "idle"

EquivNext ==
    \/ goto_parse_jmp_fwd
    \/ goto_parse_jmp_back
    \/ goto_parse_mv_right
    \/ goto_parse_mv_left
    \/ goto_parse_inc_val
    \/ goto_parse_dec_val
    \/ do_jmp_fwd
    \/ do_set_zero
    \/ do_add_val
    \/ do_add_to_next
    \/ do_multiply_mv
    \/ do_set_val
    \/ do_scan_right
    \/ do_scan_left
    \/ bf_main_compile
    \/ bf_do_mv_right
    \/ bf_do_mv_left
    \/ bf_do_inc_val
    \/ bf_do_dec_val
    \/ bf_do_jmp_fwd
    \/ bf_do_jmp_back

EquivSpec == EquivInit /\ [][EquivNext]_vars

----------------------------------------------------------------------------
(* Single moves, move pairs and loop patterns compiled and run from a given *)
(* tape: the instruction's effect on every head offset and cell value of    *)
(* StartTapes.                                                              *)

\* lengths of the runs of `<`
LeftMoves ==
    {1, 2, TAPE_SIZE - 1, TAPE_SIZE, TAPE_SIZE + 1, 2 * TAPE_SIZE - 1, 2 * TAPE_SIZE,
     UINT16_RANGE - 1}

\* lengths k of the sources `>`^k `<`^k
RoundTrips ==
    {1, 2, TAPE_SIZE - 1, TAPE_SIZE, 2 * TAPE_SIZE, 2 * TAPE_SIZE + 1, UINT16_RANGE - 1}

TapePatterns == {
    <<"[", "-", "]">>,
    <<"[", "+", "]">>,
    <<"[", "-", ">", "+", "<", "]">>,
    <<"[", "-", ">", "+", "+", "-", "<", "]">>,
    <<"[", "-", ">", "+", "+", "+", "<", "]">>,
    <<"[", "-", ">", "-", "<", "]">>,
    <<"[", "-", ">", "+", "-", "<", "]">>,
    <<"[", "-", ">", "-", "-", "<", "]">>,
    <<"[", "-", "]", "+">>,
    <<"[", "-", "]", "-", "-">>,
    <<"[", "-", "]", "+", "-">>,
    <<"[", "-", "]", "-", "+", "-">>,
    <<"[", "+", "]", "+">>
}

TapeSources ==
    {<<Run("<", n)>> : n \in LeftMoves}
    \cup {<<Run(">", k), Run("<", k)>> : k \in RoundTrips}
    \cup {Buffer(s) : s \in TapePatterns}
    \cup {<<Run("[", 1), Run("-", 1), Run("]", 1), Run("+", 257)>>}

TapeInit ==
    /\ ops \in TapeSources
    /\ i = 0
    /\ bytecode = <<>>
    /\ loop_stack = <<>>
    /\ phase = "compile"
    /\ tape \in StartTapes
    /\ pc = 0
    /\ out = <<>>
    /\ flushed = 0
    /\ inlog = <<>>
    /\ steps = 0
    /\ nbytecode = <<>>
    /\ ntape = NewTape
    /\ npc = 0
    /\ nphase = "idle"

TapeNext ==
    \/ goto_parse_mv_right
    \/ goto_parse_mv_left
    \/ goto_parse_inc_val
    \/ goto_parse_dec_val
    \/ goto_parse_jmp_fwd
    \/ do_set_zero
    \/ do_add_val
    \/ do_mv_pos
    \/ do_add_to_next
    \/ do_multiply_mv
    \/ do_set_val

TapeSpec == TapeInit /\ [][TapeNext]_vars

----------------------------------------------------------------------------
(* Claims about the loop patterns (specification EquivSpec) *)

\* C1: for every recognized loop pattern, every tape content and every head
\* offset in [-C, C-1], executing the emitted instructions produces the same
\* cells, the same head position and the same fault or no-fault outcome as
\* executing the pattern's source characters one at a time.
C1_PatternsRunAsWritten ==
    (phase \in {"done", "fault"} /\ nphase \in {"done", "fault"}) =>
        /\ tape.right = ntape.right
        /\ tape.left = ntape.left
        /\ tape.position = ntape.position
        /\ (phase = "fault") <=> (nphase = "fault")

----------------------------------------------------------------------------
(* Claims about the compiled program and its run (specification Spec) *)

\* the step is the interpreter handling op: main has sent the bytecode to
\* interprete and not to print_bytecode
Executes(op) == Handling(op) /\ phase' # "dumped"

\* the handler of the instruction at pc reads or writes the current cell
AccessesCell == phase = "run" /\ pc < Len(bytecode) /\ Fetch.op # "MV_POS"

\* C2: for every head offset p in [-C, C-1] and every n in 1..65535,
\* move-right-by-n raises the overflow fault exactly when p + n > C-1 and
\* otherwise sets the head to p + n; a raised fault leaves head and cells
\* unchanged.  Stated of every MV_POS with a positive operand that runs.
C2_MoveRightFaultsExactlyPastTheEdge ==
    [][(Executes("MV_POS") /\ InArrays(tape) /\ Fetch.value >= 1) =>
          IF Offset(tape) + Fetch.value > TAPE_SIZE - 1
          THEN phase' = "fault" /\ tape' = tape
          ELSE phase' # "fault"
               /\ tape' = [tape EXCEPT !.position = @ + Fetch.value]]_vars

\* C3: whenever an instruction reads or writes a cell, the head offset lies
\* in [-C, C-1].
C3_HeadInsideTheArraysOnEveryAccess ==
    AccessesCell => Offset(tape) \in (-TAPE_SIZE)..(TAPE_SIZE - 1)

\* the JUMP_FWD at index k has been closed by a `]`
Closed(k) == \A s \in 1..Len(loop_stack) : loop_stack[s] # k

\* C4: every JUMP_BACK at index j with target t has t < j, instruction t a
\* JUMP_FWD and that JUMP_FWD's target equal to j; every JUMP_FWD that a `]`
\* has closed has as target the index of a later JUMP_BACK whose target is the
\* JUMP_FWD's own index.
C4_JumpTargetsPointAtEachOther ==
    \A j \in 0..(Len(bytecode) - 1) :
        /\ bytecode[j + 1].op = "JUMP_BACK" =>
              LET t == bytecode[j + 1].jump_ref
              IN /\ t < j
                 /\ bytecode[t + 1].op = "JUMP_FWD"
                 /\ bytecode[t + 1].jump_ref = j
        /\ (bytecode[j + 1].op = "JUMP_FWD" /\ Closed(j)) =>
              LET t == bytecode[j + 1].jump_ref
              IN /\ j < t
                 /\ t < Len(bytecode)
                 /\ bytecode[t + 1].op = "JUMP_BACK"
                 /\ bytecode[t + 1].jump_ref = j

\* a compiled sequence with a loop nested in a loop, both closed, the outer
\* one not starting the sequence
C4_Witness ==
    /\ phase = "run"
    /\ loop_stack = <<>>
    /\ \E a, b \in 1..(Len(bytecode) - 1) :
          /\ a < b
          /\ bytecode[a + 1].op = "JUMP_FWD"
          /\ bytecode[b + 1].op = "JUMP_FWD"
          /\ bytecode[b + 1].jump_ref < bytecode[a + 1].jump_ref

\* the source without its comment bytes
StripComments(b) == SelectSeq(b, LAMBDA r : r.c \in Commands)

\* C5: inserting comment bytes between the meaningful bytes of a source
\* yields the same instruction sequence as the source without them.
C5_CommentBytesDoNotChangeTheSequence ==
    (phase # "compile") =>
        \E g \in {"]", "?"} : bytecode = compile(StripComments(ops), g).bytecode

\* a loop pattern starts at pos, and its span
RecognizedSpan(b, pos) ==
    IF is_set_value_pattern(b, pos).found THEN is_set_value_pattern(b, pos).len_of_pattern
    ELSE IF is_set_zero_pattern(b, pos) THEN 3
    ELSE IF is_scan_pattern(b, pos).found THEN 3
    ELSE IF is_add_to_next_pattern(b, pos, "?") THEN 6
    ELSE IF is_multiply_move_pattern(b, pos).found
    THEN is_multiply_move_pattern(b, pos).len_of_pattern
    ELSE 0

\* C6: standing on `[` of a recognized loop pattern, the compiler emits
\* exactly one instruction, no JUMP_FWD or JUMP_BACK, moves the cursor past
\* the pattern's whole span and pushes nothing on the loop stack.
C6_RecognizedPatternIsOneInstruction ==
    [][(At({"["}) /\ RecognizedSpan(ops, i) > 0) =>
          /\ Len(bytecode') = Len(bytecode) + 1
          /\ SubSeq(bytecode', 1, Len(bytecode)) = bytecode
          /\ bytecode'[Len(bytecode')].op \notin {"JUMP_FWD", "JUMP_BACK"}
          /\ i' = i + RecognizedSpan(ops, i)
          /\ loop_stack' = loop_stack]_vars

\* C7: a JUMP_FWD left unclosed (placeholder target) that executes on a zero
\* cell jumps past the end of the program, which terminates.
C7_UnclosedJumpLeavesTheProgram ==
    [][(Executes("JUMP_FWD") /\ ~Closed(pc) /\ get_curr(tape) = 0) =>
          phase' = "done"]_vars

\* C8: a tape fault is raised only by a head move: OUTPUT, INPUT, ADD_VAL,
\* SET_VAL, SET_ZERO, JUMP_FWD, JUMP_BACK, ADD_TO_NEXT and MULTIPLY_MV
\* complete without a fault at every head offset in [-C, C-1].
C8_OnlyHeadMovesFault ==
    (phase = "fault") =>
        Fetch.op \notin {"OUTPUT", "INPUT", "ADD_VAL", "SET_VAL", "SET_ZERO",
                         "JUMP_FWD", "JUMP_BACK", "ADD_TO_NEXT", "MULTIPLY_MV"}

\* the instruction a run of k characters c stands for
RunInstruction(c, k) ==
    CASE c = ">" -> Instruction("MV_POS", 0, k)
      [] c = "<" -> Instruction("MV_POS", 0, -k)
      [] c = "+" -> Instruction("ADD_VAL", 0, k)
      [] c = "-" -> Instruction("ADD_VAL", 0, -k)

\* C9: a maximal run of k >= 1 equal characters among > < + - compiles to
\* exactly one instruction carrying k (negated for < and -), and the cursor
\* advances by exactly k, for every k.
C9_RunOfAnyLengthIsOneInstruction ==
    [][At({">", "<", "+", "-"}) =>
          LET k == count_repeated_chars(ops, i, at(ops, i))
          IN /\ bytecode' = Append(bytecode, RunInstruction(at(ops, i), k))
             /\ i' = i + k]_vars

\* C10: every compiler step advances the cursor by at least one character
\* (so that compile reaches the end of every finite input).
C10_EveryCompilerStepAdvances ==
    [][(phase = "compile" /\ i < size(ops)) => i' > i]_vars

----------------------------------------------------------------------------
(* Claims about the tape, the instruction set and the dump *)

\* C11: cell arithmetic is modulo 256: ADD_VAL with operand d on a cell
\* holding v leaves (v + d) mod 256 in it and nothing else changed; ADD_VAL
\* 256 changes nothing, ADD_VAL -1 on a zero cell yields 255, and the program
\* `-.` writes the single byte 255.
C11_CellArithmeticIsModulo256 ==
    [][/\ Executes("ADD_VAL") =>
             /\ phase' # "fault"
             /\ tape' = set_curr(tape, (get_curr(tape) + Fetch.value) % 256)
             /\ get_curr(tape') \in Byte
             /\ (Fetch.value = 256 => tape' = tape)
             /\ (Fetch.value = -1 /\ get_curr(tape) = 0 => get_curr(tape') = 255)
       /\ (ops = Buffer(<<"-", ".">>) /\ phase' = "done") => out' = <<255>>]_vars

\* `-.` has run and written its byte
C11_Witness ==
    /\ ops = Buffer(<<"-", ".">>)
    /\ phase = "done"
    /\ bytecode[1] = Instruction("ADD_VAL", 0, -1)
    /\ out = <<255>>

\* the instructions at j and j + 1 are MV_POS k and MV_POS -k with k >= 1
RoundTripAt(j) ==
    /\ j >= 0
    /\ j + 1 < Len(bytecode)
    /\ bytecode[j + 1].op = "MV_POS"
    /\ bytecode[j + 1].value >= 1
    /\ bytecode[j + 2].op = "MV_POS"
    /\ bytecode[j + 2].value = -bytecode[j + 1].value

\* C12: MV_POS +k that does not fault, followed by MV_POS -k, leaves the head
\* where it was and every cell with its value: the first adds k to the head
\* and changes no cell, the second (reached only from the first) does not
\* fault, subtracts k and changes no cell.
C12_MoveThereAndBack ==
    [][/\ (Executes("MV_POS") /\ RoundTripAt(pc) /\ phase' # "fault") =>
             tape' = [tape EXCEPT !.position = @ + Fetch.value]
       /\ (Executes("MV_POS") /\ RoundTripAt(pc - 1)) =>
             /\ phase' # "fault"
             /\ tape' = [tape EXCEPT !.position = @ + Fetch.value]]_vars

\* a pair with k > 1 has run from its start to its end
C12_Witness ==
    /\ phase = "done"
    /\ pc = 2
    /\ RoundTripAt(0)
    /\ bytecode[1].value > 1
    /\ tape \in StartTapes

\* C13: for every head offset p in [-C, C-1] and every n in 1..65535,
\* move-left-by-n raises the underflow fault exactly when p - n < -C, and
\* otherwise sets the head to p - n; a raised fault leaves head and cells
\* unchanged.  Stated of every MV_POS with a negative operand that runs.
C13_MoveLeftFaultsExactlyPastTheEdge ==
    [][(Executes("MV_POS") /\ InArrays(tape) /\ Fetch.value <= -1) =>
          IF Offset(tape) + Fetch.value < -TAPE_SIZE
          THEN phase' = "fault" /\ tape' = tape
          ELSE phase' # "fault"
               /\ tape' = [tape EXCEPT !.position = @ + Fetch.value]]_vars

\* a move to the left has faulted from a cell that is not the leftmost
C13_Witness ==
    /\ phase = "fault"
    /\ Fetch.op = "MV_POS"
    /\ Fetch.value < -1
    /\ tape.position > 0
    /\ tape.position < -Fetch.value

\* the tape t after its current cell, holding c, has been zeroed and c * k
\* added modulo 256 to the cell on its right, the head where it was
MovedToTheRight(t, k) ==
    LET c == get_curr(t)
        atRight == [set_curr(t, 0) EXCEPT !.position = @ + 1]
        added == set_curr(atRight, (get_curr(atRight) + c * k) % 256)
    IN [added EXCEPT !.position = t.position]

\* C14: on every tape and head position SET_ZERO does what SET_VAL 0 does,
\* and ADD_TO_NEXT does what MULTIPLY_MV 1 does (and conversely), with the
\* same fault outcome; when they do not fault, ADD_TO_NEXT and MULTIPLY_MV 1
\* leave the head unchanged, zero the current cell and add its prior value
\* modulo 256 to the right neighbour.
C14_SpecialCasesAgree ==
    [][/\ Executes("SET_ZERO") =>
             /\ tape' = set_val(tape, 0).tape
             /\ (phase' = "fault") <=> (set_val(tape, 0).thrown # "none")
       /\ Executes("ADD_TO_NEXT") =>
             /\ tape' = multiply_mv(tape, 1).tape
             /\ (phase' = "fault") <=> (multiply_mv(tape, 1).thrown # "none")
       /\ (Executes("MULTIPLY_MV") /\ Fetch.value = 1) =>
             /\ tape' = add_to_next(tape).tape
             /\ (phase' = "fault") <=> (add_to_next(tape).thrown # "none")
       /\ ((Executes("ADD_TO_NEXT") \/ (Executes("MULTIPLY_MV") /\ Fetch.value = 1))
            /\ phase' # "fault") =>
             tape' = MovedToTheRight(tape, 1)]_vars

\* ADD_TO_NEXT has moved a 2 onto a 255, which wrapped to 1
C14_Witness ==
    /\ phase = "done"
    /\ bytecode = <<Instruction("ADD_TO_NEXT", 0, 0)>>
    /\ get_curr(tape) = 0
    /\ CellAt(tape, Offset(tape) + 1) = 1

\* C15: JUMP_FWD with target t on a zero cell continues at index t + 1, one
\* past the matching JUMP_BACK when the loop is closed, without executing an
\* instruction of the body; JUMP_BACK with target t on a nonzero cell
\* continues at index t + 1, one past the matching JUMP_FWD; otherwise each
\* continues at pc + 1.  Neither changes the tape or writes or reads.
C15_JumpsLandOnePastTheirTarget ==
    [][/\ Executes("JUMP_FWD") =>
             /\ pc' = IF get_curr(tape) = 0 THEN Fetch.jump_ref + 1 ELSE pc + 1
             /\ (get_curr(tape) = 0 /\ Closed(pc)) =>
                   /\ pc' > pc + 1
                   /\ bytecode[pc'].op = "JUMP_BACK"
                   /\ bytecode[pc'].jump_ref = pc
       /\ Executes("JUMP_BACK") =>
             /\ pc' = IF get_curr(tape) # 0 THEN Fetch.jump_ref + 1 ELSE pc + 1
             /\ get_curr(tape) # 0 =>
                   /\ pc' <= pc
                   /\ bytecode[pc'].op = "JUMP_FWD"
                   /\ bytecode[pc'].jump_ref = pc
       /\ (Executes("JUMP_FWD") \/ Executes("JUMP_BACK")) =>
             /\ phase' = IF pc' < Len(bytecode) THEN "run" ELSE "done"
             /\ steps' = steps + 1
             /\ UNCHANGED <<tape, out, inlog>>]_vars

\* `[.]` has run on a zero cell: one step, past the loop, nothing written
C15_Witness ==
    /\ ops = Buffer(<<"[", ".", "]">>)
    /\ phase = "done"
    /\ pc = 3
    /\ steps = 1
    /\ out = <<>>

\* the length of the maximal run of `+` and `-` that starts at from
SignRunLength(b, from) ==
    Cardinality({j \in from..(size(b) - 1) :
                    \A m \in from..j : at(b, m) \in {"+", "-"}})

\* the number of `+` less the number of `-` among len characters from from
SignedSum(b, from, len) ==
    Cardinality({j \in from..(from + len - 1) : at(b, j) = "+"})
    - Cardinality({j \in from..(from + len - 1) : at(b, j) = "-"})

\* at pos stands `[->`, a nonempty run of `+` and `-`, and `<]`
IsMultiplyText(b, pos) ==
    LET len == SignRunLength(b, pos + 3)
    IN /\ pos + 2 < size(b)
       /\ at(b, pos) = "[" /\ at(b, pos + 1) = "-" /\ at(b, pos + 2) = ">"
       /\ len >= 1
       /\ pos + 4 + len < size(b)
       /\ at(b, pos + 3 + len) = "<" /\ at(b, pos + 4 + len) = "]"

IsSetText(b, pos) ==
    /\ pos + 2 < size(b)
    /\ at(b, pos) = "[" /\ at(b, pos + 1) = "-" /\ at(b, pos + 2) = "]"

\* C17: `[-]` followed by a nonempty maximal run of `+`/`-` with nonzero
\* signed sum v compiles to exactly one SET_VAL v, the cursor moving by 3 +
\* the run's length; with a zero sum or no run `[-]` compiles to SET_ZERO,
\* the cursor moving by 3, and the run is compiled on its own (`[-]+-` gives
\* SET_ZERO, ADD_VAL 1, ADD_VAL -1); SET_VAL v leaves v mod 256 in the
\* current cell and nothing else changed.
C17_SetValueIsRecognizedAndSets ==
    [][/\ (At({"["}) /\ IsSetText(ops, i)) =>
             LET len == SignRunLength(ops, i + 3)
                 v == SignedSum(ops, i + 3, len)
             IN /\ bytecode' =
                      Append(bytecode,
                             IF v # 0
                             THEN Instruction("SET_VAL", 0, v)
                             ELSE Instruction("SET_ZERO", 0, 0))
                /\ i' = IF v # 0 THEN i + 3 + len ELSE i + 3
                /\ loop_stack' = loop_stack
       /\ (ops = Buffer(<<"[", "-", "]", "+", "-">>) /\ phase = "compile" /\ phase' = "run") =>
             bytecode' = <<Instruction("SET_ZERO", 0, 0), Instruction("ADD_VAL", 0, 1),
                           Instruction("ADD_VAL", 0, -1)>>
       /\ Executes("SET_VAL") =>
             /\ phase' # "fault"
             /\ get_curr(tape') = Fetch.value % 256
             /\ tape' = set_curr(tape, Fetch.value % 256)]_vars

\* `[-]--` has run: one SET_VAL -2, the cell holds 254
C17_Witness ==
    /\ phase = "done"
    /\ bytecode = <<Instruction("SET_VAL", 0, -2)>>
    /\ i = 5
    /\ get_curr(tape) = 254

\* the source without the `]` that meet an empty loop-matching stack: depth
\* is the number of `[` open before b
RECURSIVE DropStray(_, _)
DropStray(b, depth) ==
    IF b = <<>> THEN <<>>
    ELSE LET r == Head(b)
         IN IF r.c = "["
            THEN <<r>> \o DropStray(Tail(b), depth + r.n)
            ELSE IF r.c = "]"
            THEN IF depth >= r.n
                 THEN <<r>> \o DropStray(Tail(b), depth - r.n)
                 ELSE (IF depth > 0 THEN <<Run("]", depth)>> ELSE <<>>)
                      \o DropStray(Tail(b), 0)
            ELSE <<r>> \o DropStray(Tail(b), depth)

\* C18: a `]` met while the loop-matching stack is empty emits no
\* instruction and leaves the stack and the instructions emitted so far
\* unchanged, and the source compiles to the sequence it compiles to without
\* that `]`.
C18_StrayCloserIsAbsent ==
    [][/\ (At({"]"}) /\ loop_stack = <<>>) =>
             /\ bytecode' = bytecode
             /\ loop_stack' = loop_stack
             /\ i' = i + 1
       /\ (phase = "compile" /\ phase' = "run") =>
             \E g \in {"]", "?"} : bytecode' = compile(DropStray(ops, 0), g).bytecode]_vars

\* the opcodes in the order of their tags, OUTPUT = 0 .. SCAN_LEFT = 11
TagOrder ==
    <<"OUTPUT", "INPUT", "JUMP_FWD", "JUMP_BACK", "SET_ZERO", "ADD_VAL", "MV_POS",
      "ADD_TO_NEXT", "MULTIPLY_MV", "SET_VAL", "SCAN_RIGHT", "SCAN_LEFT">>

\* C19: under -c the program writes, in sequence order, exactly one byte per
\* compiled instruction, the instruction's opcode tag, and the interpreter is
\* never run: the tape stays fresh, no input is read, no instruction is
\* executed, and nothing happens after the dump; `+++[-].` yields the three
\* bytes of ADD_VAL, SET_ZERO and OUTPUT.
C19_DumpIsOneTagPerInstruction ==
    [][/\ (phase # "dumped" /\ phase' = "dumped") =>
             /\ Len(out') = Len(bytecode)
             /\ \A k \in 1..Len(bytecode) : TagOrder[out'[k] + 1] = bytecode[k].op
             /\ tape' = NewTape
             /\ inlog' = <<>>
             /\ steps' = 0
             /\ bytecode' = bytecode
             /\ (ops = Buffer(<<"+", "+", "+", "[", "-", "]", ".">>) => out' = <<5, 4, 0>>)
       /\ phase = "dumped" =>
             /\ phase' = "exited"
             /\ UNCHANGED <<tape, pc, out, inlog, steps, bytecode>>]_vars

\* `+++[-].` has been dumped
C19_Witness ==
    /\ ops = Buffer(<<"+", "+", "+", "[", "-", "]", ".">>)
    /\ phase = "dumped"
    /\ out = <<5, 4, 0>>
    /\ tape = NewTape

\* C20: while interpreting, each OUTPUT executed appends exactly one byte,
\* the current cell, to standard output and changes neither tape nor head;
\* each INPUT executed reads standard input exactly once and writes nothing;
\* no other opcode writes to standard output or reads standard input.
C20_OnlyOutputWritesOnlyInputReads ==
    [][\A op \in OpCode :
          Executes(op) =>
             /\ op = "OUTPUT" =>
                   /\ out' = Append(out, get_curr(tape))
                   /\ get_curr(tape) \in Byte
                   /\ tape' = tape
                   /\ inlog' = inlog
             /\ op = "INPUT" =>
                   /\ Len(inlog') = Len(inlog) + 1
                   /\ SubSeq(inlog', 1, Len(inlog)) = inlog
                   /\ out' = out
             /\ op \notin {"OUTPUT", "INPUT"} =>
                   /\ out' = out
                   /\ inlog' = inlog]_vars

\* `,[.,]` has read a, written it, read 0 and ended
C20_Witness ==
    /\ ops = Buffer(<<",", "[", ".", ",", "]">>)
    /\ phase = "done"
    /\ inlog = <<97, 0>>
    /\ out = <<97>>

----------------------------------------------------------------------------
(* The program left to run for as long as it runs: programs that write and  *)
(* then end, fault, or loop for ever.  Executed instructions are not        *)
(* counted, so a program that loops for ever returns to the states it was   *)
(* in.                                                                      *)

LiveSources == {
    Buffer(<<".">>),
    Buffer(<<"+", ".">>),
    Buffer(<<".", ".">>),
    Buffer(<<".", "+", "[", "+", "-", "]">>),
    Buffer(<<"+", ".", "[", "+", "-", "]">>),
    Buffer(<<".", ">", "+", "[", "+", "-", "]", ".">>),
    Buffer(<<"-", ".", "+", "[", "+", "-", "]">>),
    Buffer(<<",", ".", "[", "+", "-", "]">>),
    Buffer(<<".", ",", "[", "+", "-", "]">>),
    Buffer(<<"+", ".", "[", "-", "]", ".">>),
    Buffer(<<"+", "+", "[", ".", "-", "]">>),
    Buffer(<<"+", ".", ">", ".", "<", ".">>),
    <<Run("+", 1), Run(".", 1), Run("<", TAPE_SIZE + 1)>>,
    <<Run(".", 2), Run(">", TAPE_SIZE)>>
}

LiveInit ==
    /\ ops \in LiveSources
    /\ i = 0
    /\ bytecode = <<>>
    /\ loop_stack = <<>>
    /\ phase = "compile"
    /\ tape = NewTape
    /\ pc = 0
    /\ out = <<>>
    /\ flushed = 0
    /\ inlog = <<>>
    /\ steps = -1
    /\ nbytecode = <<>>
    /\ ntape = NewTape
    /\ npc = 0
    /\ nphase = "idle"

LiveNext ==
    \/ goto_parse_mv_right
    \/ goto_parse_mv_left
    \/ goto_parse_inc_val
    \/ goto_parse_dec_val
    \/ goto_parse_output
    \/ goto_parse_input
    \/ goto_parse_jmp_fwd
    \/ goto_parse_jmp_back
    \/ do_output
    \/ do_input
    \/ do_jmp_fwd
    \/ do_jmp_back
    \/ do_set_zero
    \/ do_add_val
    \/ do_mv_pos
    \/ main_return
    \/ main_uncaught

\* the process is the only thread and holds the CPU until it ends: a step it
\* can take, it takes
LiveSpec == LiveInit /\ [][LiveNext]_vars /\ WF_vars(LiveNext)

----------------------------------------------------------------------------
(* The canonical Hello World program, compiled and run to its end *)

\* ++++++++[>++++[>++>+++>+++>+<<<<-]>+>+>->>+[<]<-]>>.>---.+++++++..+++.
\* >>.<-.<.+++.------.--------.>>+.>++.
HelloWorld == <<
    Run("+", 8), Run("[", 1), Run(">", 1), Run("+", 4), Run("[", 1),
    Run(">", 1), Run("+", 2), Run(">", 1), Run("+", 3), Run(">", 1),
    Run("+", 3), Run(">", 1), Run("+", 1), Run("<", 4), Run("-", 1),
    Run("]", 1), Run(">", 1), Run("+", 1), Run(">", 1), Run("+", 1),
    Run(">", 1), Run("-", 1), Run(">", 2), Run("+", 1), Run("[", 1),
    Run("<", 1), Run("]", 1), Run("<", 1), Run("-", 1), Run("]", 1),
    Run(">", 2), Run(".", 1), Run(">", 1), Run("-", 3), Run(".", 1),
    Run("+", 7), Run(".", 2), Run("+", 3), Run(".", 1), Run(">", 2),
    Run(".", 1), Run("<", 1), Run("-", 1), Run(".", 1), Run("<", 1),
    Run(".", 1), Run("+", 3), Run(".", 1), Run("-", 6), Run(".", 1),
    Run("-", 8), Run(".", 1), Run(">", 2), Run("+", 1), Run(".", 1),
    Run(">", 1), Run("+", 2), Run(".", 1)
>>

\* "Hello World!" and a newline
HelloText == <<72, 101, 108, 108, 111, 32, 87, 111, 114, 108, 100, 33, 10>>

HelloInit ==
    /\ ops = HelloWorld
    /\ i = 0
    /\ bytecode = <<>>
    /\ loop_stack = <<>>
    /\ phase = "compile"
    /\ tape = NewTape
    /\ pc = 0
    /\ out = <<>>
    /\ flushed = 0
    /\ inlog = <<>>
    /\ steps = -1
    /\ nbytecode = <<>>
    /\ ntape = NewTape
    /\ npc = 0
    /\ nphase = "idle"

HelloNext ==
    \/ goto_parse_mv_right
    \/ goto_parse_mv_left
    \/ goto_parse_inc_val
    \/ goto_parse_dec_val
    \/ goto_parse_output
    \/ goto_parse_jmp_fwd
    \/ goto_parse_jmp_back
    \/ do_output
    \/ do_jmp_fwd
    \/ do_jmp_back
    \/ do_add_val
    \/ do_mv_pos
    \/ do_scan_left
    \/ main_return

HelloSpec == HelloInit /\ [][HelloNext]_vars /\ WF_vars(HelloNext)

----------------------------------------------------------------------------
(* Claims about the process: faults, buffering, whole programs *)

\* C21: when a tape motion fault is raised, no further instruction is
\* executed (tape, head, program counter, input and the bytes emitted stay as
\* they are while the process terminates on the uncaught fault), and every
\* byte an OUTPUT emitted before the fault has reached standard output once
\* the process is gone.
C21_FaultKeepsTheOutput ==
    [][phase = "fault" =>
          /\ phase' = "aborted"
          /\ UNCHANGED <<tape, pc, out, inlog, steps, bytecode>>
          /\ flushed' = Len(out)]_vars

\* C22: every byte an OUTPUT emitted eventually reaches standard output,
\* whether or not the program ever terminates: whenever emitted bytes are
\* still buffered, a later state has all of them delivered, unless a tape
\* fault ends the process first (what a fault does to them is C21).
C22_EmittedBytesAreDelivered ==
    (flushed < Len(out)) ~> (flushed = Len(out) \/ phase \in {"fault", "aborted"})

\* C23: compiling and interpreting Hello World never faults and never leaves
\* the tape arrays, writes a prefix of `Hello World!\n` at every moment, and
\* ends: the process exits normally having written exactly those 13 bytes.
C23_HelloWorld ==
    /\ [](/\ phase \notin {"fault", "aborted", "undefined"}
          /\ Len(out) <= Len(HelloText)
          /\ out = SubSeq(HelloText, 1, Len(out))
          /\ (phase \in {"done", "exited"} => out = HelloText))
    /\ <>[](phase = "exited" /\ out = HelloText /\ flushed = Len(HelloText))

\* Hello World has run to its end
C23_Witness ==
    /\ ops = HelloWorld
    /\ phase = "done"
    /\ pc = Len(bytecode)
    /\ out = HelloText

\* the echo program `,[.,]`
Echo == Buffer(<<",", "[", ".", ",", "]">>)

\* the positions of the zero bytes among the values read so far
ZerosRead(log) == {k \in 1..Len(log) : log[k] = 0}

\* C24: running `,[.,]`, once a zero byte has been read it is the last value
\* read (nothing after it is consumed), the output is exactly the bytes read
\* before it, no fault is raised, and the interpreter takes one more step, the
\* jump that leaves the loop, and returns normally.
C24_EchoStopsAtTheFirstZero ==
    [][(ops = Echo /\ ZerosRead(inlog') # {}) =>
          /\ ZerosRead(inlog') = {Len(inlog')}
          /\ out' = SubSeq(inlog', 1, Len(inlog') - 1)
          /\ phase' \in {"run", "done", "exited"}
          /\ (phase' = "run" => get_curr(tape') = 0
                                /\ bytecode[pc' + 1].op \in {"JUMP_FWD", "JUMP_BACK"})
          /\ (ZerosRead(inlog) # {} /\ phase = "run" => phase' = "done")]_vars

\* `,[.,]` has read a, a, a and a zero byte, and has ended
C24_Witness ==
    /\ ops = Echo
    /\ inlog = <<97, 97, 97, 0>>
    /\ out = <<97, 97, 97>>
    /\ phase = "done"
    /\ pc = Len(bytecode)

\* `+>+>+>>+<<<<[>]`: cells 0, 1, 2 and 4 are set to 1 and the head is back
\* at 0 when the scan starts
ScanProgram ==
    Buffer(<<"+", ">", "+", ">", "+", ">", ">", "+", "<", "<", "<", "<", "[", ">", "]">>)

\* the scan has left the head at offset p: it started at 0 over cells that are
\* nonzero up to p - 1, changed no cell, and the program ends with the head
\* at p on a zero cell
ScanEndsAt(p) ==
    /\ Executes("SCAN_RIGHT") =>
          /\ Offset(tape) = 0
          /\ \A q \in 0..(p - 1) : CellAt(tape, q) # 0
          /\ tape'.right = tape.right /\ tape'.left = tape.left
          /\ Offset(tape') = p
          /\ get_curr(tape') = 0
    /\ (phase = "run" /\ phase' = "done") =>
          /\ Offset(tape') = p
          /\ get_curr(tape') = 0
          /\ \A q \in {0, 1, 2, 4} : CellAt(tape', q) = 1

\* C25 as stated: executing `+>+>+>>+<<<<[>]` on an all-zero tape leaves the
\* head on the first zero cell to the right of the start, which is position
\* 4, with no cell changed by the scan.
C25_ScanEndsAtPositionFour ==
    [][ops = ScanProgram => ScanEndsAt(4)]_vars

\* C25, amended: executing `+>+>+>>+<<<<[>]` on an all-zero tape leaves the
\* head on the first zero cell to the right of the start, which is position
\* 3 (the program sets cells 0, 1, 2 and 4), with no cell changed by the scan.
C25_ScanEndsOnTheFirstZero ==
    [][ops = ScanProgram => ScanEndsAt(3)]_vars

\* the program has run: the head is at 3, on the zero cell left of cell 4
C25_Witness ==
    /\ ops = ScanProgram
    /\ phase = "done"
    /\ Offset(tape) = 3
    /\ get_curr(tape) = 0
    /\ CellAt(tape, 4) = 1
    /\ \E k \in 1..Len(bytecode) : bytecode[k].op = "SCAN_RIGHT"

\* the last value std::cin.get() returned is the end of input
AtEndOfInput(log) == log # <<>> /\ log[Len(log)] = EOF

\* C26: an INPUT executed at end of input always has the same effect: the
\* current cell becomes 0xFF and nothing else on the tape changes, whatever
\* the cell held, on the first such call and on every later one, at every
\* head offset; nothing is written, and execution continues with the next
\* instruction.
C26_InputAtEndOfInputStoresFF ==
    [][(Executes("INPUT") /\ AtEndOfInput(inlog')) =>
          /\ tape' = set_curr(tape, 255)
          /\ get_curr(tape') = 255
          /\ \A p \in {-TAPE_SIZE, -1, 0, 1, TAPE_SIZE - 1} \ {Offset(tape)} :
                CellAt(tape', p) = CellAt(tape, p)
          /\ out' = out
          /\ pc' = pc + 1
          /\ phase' = IF pc + 1 < Len(bytecode) THEN "run" ELSE "done"]_vars

\* at the left edge, a second INPUT at end of input has run on the cell the
\* first one set, and the byte written is 0xFF
C26_Witness ==
    /\ ops = <<Run("<", TAPE_SIZE), Run(",", 2), Run(".", 1)>>
    /\ inlog = <<EOF, EOF>>
    /\ Offset(tape) = -TAPE_SIZE
    /\ out = <<255>>
    /\ phase = "done"

\* C27: the program counter is 0 until interprete starts; while interprete
\* runs a nonempty sequence every fetch uses a pc with 0 <= pc < length (also
\* where it stops on a fault); it has returned normally exactly when pc is the
\* length of the sequence, which for the empty sequence (the empty source, a
\* source of comment bytes only) is at once, before any fetch.  Stated of
\* every source, bracket-balanced or not.
C27_ProgramCounterStaysInsideTheSequence ==
    /\ pc \in 0..Len(bytecode)
    /\ phase = "compile" => pc = 0 /\ steps = 0
    /\ steps = 0 => pc = 0
    /\ (phase \in {"run", "fault", "undefined"} /\ bytecode # <<>>) => pc < Len(bytecode)
    /\ phase = "done" => pc = Len(bytecode)
    /\ (pc = Len(bytecode) /\ bytecode # <<>>) => phase \in {"done", "exited"}
    /\ (phase = "done" /\ bytecode = <<>>) => steps = 0

\* a balanced program with a loop that ran has returned with pc at the length
C27_Witness ==
    /\ ops = Buffer(<<"+", "+", "[", ">", "+", "<", "-", "]", ">", ".">>)
    /\ phase = "done"
    /\ pc = Len(bytecode)
    /\ steps > Len(bytecode)
    /\ out = <<2>>

\* C28: the compiler is deterministic and history-free: the sequence an
\* invocation of compile has returned for a buffer is, field by field, the
\* sequence every invocation on an equal buffer returns (compile keeps no
\* state between invocations: its locals start afresh and the class has no
\* members).
C28_CompileIsDeterministic ==
    (phase # "compile") =>
        \A g \in {"]", "?"} : bytecode = compile(ops, g).bytecode

\* C29: during compilation of a buffer of length L, every read of the buffer
\* made by the label dispatched at the cursor (the dispatch itself,
\* count_repeated_chars, the five pattern predicates) uses an index below L;
\* in particular no predicate reads the index L when `[->+<` ends the buffer.
C29_CompileReadsInsideTheBuffer ==
    (phase = "compile" /\ i < size(ops)) =>
        \A k \in reads_dispatch(ops, i) : k >= 0 /\ k < size(ops)

\* offsets at both edges and on both sides of the origin
Probes == {-TAPE_SIZE, -TAPE_SIZE + 1, -2, -1, 0, 1, TAPE_SIZE - 2, TAPE_SIZE - 1}

\* the offsets of the cells that hold a nonzero value
NonzeroOffsets(t) == DOMAIN t.right \cup {-1 - k : k \in DOMAIN t.left}

\* the value a write of op with operand x leaves in a cell that held v
Written(op, x, v) ==
    CASE op = "ADD_VAL" -> (v + x) % 256
      [] op = "SET_VAL" -> x % 256
      [] op = "SET_ZERO" -> 0

\* C30: the two arrays map the offsets in [-C, C-1] one-to-one onto cells: a
\* write (ADD_VAL, SET_VAL, SET_ZERO) at offset p leaves the head at p, makes
\* the value read at p the value written, and leaves the value read at every
\* other offset as it was (the probes at the edges and around the origin, and
\* every offset that holds a nonzero value before or after); the cells of a
\* new tape read zero.  In particular a write at -1 does not show at 0, nor
\* one at -C at C-1, nor the converse.
C30_OffsetsAreDistinctCells ==
    [][\A op \in {"ADD_VAL", "SET_VAL", "SET_ZERO"} :
          Executes(op) =>
             /\ phase' # "fault"
             /\ Offset(tape') = Offset(tape)
             /\ get_curr(tape') = Written(op, Fetch.value, get_curr(tape))
             /\ CellAt(tape', Offset(tape)) = get_curr(tape')
             /\ \A q \in (Probes \cup NonzeroOffsets(tape) \cup NonzeroOffsets(tape'))
                             \ {Offset(tape)} :
                   CellAt(tape', q) = CellAt(tape, q)
             /\ NonzeroOffsets(tape') \subseteq (-TAPE_SIZE)..(TAPE_SIZE - 1)
             /\ \A q \in Probes : CellAt(NewTape, q) = 0]_vars

\* `[-]+` has set the cell at -1 to 1 between a cell holding 1 at -2 and a
\* cell holding 255 at 0
C30_Witness ==
    /\ ops = Buffer(<<"[", "-", "]", "+">>)
    /\ phase = "done"
    /\ Offset(tape) = -1
    /\ CellAt(tape, -2) = 1
    /\ CellAt(tape, -1) = 1
    /\ CellAt(tape, 0) = 255
    /\ NonzeroOffsets(tape) = {-2, -1, 0}

----------------------------------------------------------------------------
(* Claims about the scans, the loop-matching stack and the dispatch tables *)

\* the zero cells at or beyond offset p in direction dir (1 right, -1 left)
\* that can be the nearest one: p itself or the cell just after a nonzero
\* cell; none when every cell from p to the edge is nonzero
ZeroCellsFrom(t, p, dir) ==
    {q \in {p} \cup {n + dir : n \in NonzeroOffsets(t)} :
        /\ (q - p) * dir >= 0
        /\ q >= -TAPE_SIZE /\ q < TAPE_SIZE
        /\ CellAt(t, q) = 0}

NearestZero(t, p, dir) ==
    CHOOSE q \in ZeroCellsFrom(t, p, dir) :
        \A r \in ZeroCellsFrom(t, p, dir) : (q - p) * dir <= (r - p) * dir

\* the step a scan in direction dir makes from the tape of this state
ScanStep(dir, thrown) ==
    /\ tape'.right = tape.right /\ tape'.left = tape.left
    /\ IF ZeroCellsFrom(tape, Offset(tape), dir) # {}
       THEN /\ phase' # "fault"
            /\ Offset(tape') = NearestZero(tape, Offset(tape), dir)
            /\ get_curr(tape') = 0
            /\ pc' = pc + 1
       ELSE /\ phase' = "fault"
            /\ thrown
    /\ get_curr(tape) = 0 => tape' = tape


\* C31: ScanRight and ScanLeft terminate from every head offset and tape
\* content: the head stops on the nearest zero cell in the scan direction, at
\* or beyond the starting cell, with no cell modified and the next
\* instruction at pc + 1, or, when every cell up to the edge is nonzero, the
\* scan raises the overflow (ScanRight) or underflow (ScanLeft) fault; a scan
\* on a zero cell does not move the head.
C31_ScansStopOnTheNearestZeroOrFault ==
    [][/\ Executes("SCAN_RIGHT") =>
             ScanStep(1, scan_right(tape).thrown = "overflow")
       /\ Executes("SCAN_LEFT") =>
             ScanStep(-1, scan_left(tape).thrown = "underflow")]_vars

\* a scan to the left over two nonzero cells has faulted on the leftmost cell
\* of the tape; the cells are as they were
C31_Witness ==
    /\ ops = Buffer(<<"[", "<", "]">>)
    /\ phase = "fault"
    /\ Fetch.op = "SCAN_LEFT"
    /\ CellAt(tape, -TAPE_SIZE) # 0
    /\ CellAt(tape, -TAPE_SIZE + 1) # 0

\* the indices of the JUMP_FWD instructions emitted so far that no emitted
\* JUMP_BACK names as its opener
Unmatched ==
    {k \in 0..(Len(bytecode) - 1) :
        /\ bytecode[k + 1].op = "JUMP_FWD"
        /\ ~\E j \in 1..Len(bytecode) :
               bytecode[j].op = "JUMP_BACK" /\ bytecode[j].jump_ref = k}

\* the indices of the JUMP_FWD instructions whose target is the placeholder
Unresolved ==
    {k \in 0..(Len(bytecode) - 1) :
        bytecode[k + 1].op = "JUMP_FWD" /\ bytecode[k + 1].jump_ref = 0}

\* C32: at every step of compilation, and when it has ended, the
\* loop-matching stack holds, strictly increasing from bottom to top, exactly
\* the indices of the emitted JUMP_FWD instructions not yet matched by a
\* JUMP_BACK, and these are exactly the JUMP_FWD instructions whose target is
\* still the zero placeholder; every JUMP_BACK carries the index of a
\* JUMP_FWD that is no longer on the stack.
C32_StackHoldsTheOpenJumps ==
    LET onStack == {loop_stack[k] : k \in 1..Len(loop_stack)}
    IN /\ \A k \in 1..(Len(loop_stack) - 1) : loop_stack[k] < loop_stack[k + 1]
       /\ onStack = Unmatched
       /\ onStack = Unresolved
       /\ \A j \in 1..Len(bytecode) :
             bytecode[j].op = "JUMP_BACK" =>
                /\ bytecode[j].jump_ref < j - 1
                /\ bytecode[bytecode[j].jump_ref + 1].op = "JUMP_FWD"
                /\ bytecode[j].jump_ref \notin onStack

\* compilation is inside the loop of `+[>+[-<->]<]`: the inner loop has been
\* closed and resolved, the outer one is the only entry of the stack
C32_Witness ==
    /\ phase = "compile"
    /\ loop_stack = <<1>>
    /\ Len(bytecode) = 10
    /\ bytecode[2].op = "JUMP_FWD" /\ bytecode[2].jump_ref = 0
    /\ bytecode[5].op = "JUMP_FWD" /\ bytecode[5].jump_ref = 9
    /\ bytecode[10].op = "JUMP_BACK" /\ bytecode[10].jump_ref = 4

\* the handlers in the order of the opcodes they implement, Output first
HandlerOrder ==
    <<"do_output", "do_input", "do_jmp_fwd", "do_jmp_back", "do_set_zero", "do_add_val",
      "do_mv_pos", "do_add_to_next", "do_multiply_mv", "do_set_val", "do_scan_right",
      "do_scan_left">>

\* the step changes the tape as result says and nothing else: the next
\* instruction is the one at pc + 1, or the fault leaves interprete
TapeEffect(result) ==
    /\ tape' = result.tape
    /\ out' = out /\ inlog' = inlog
    /\ IF result.thrown # "none"
       THEN phase' = "fault"
       ELSE phase' # "fault" /\ pc' = pc + 1

\* the step leaves the tape alone and continues one past target
JumpEffect(target) ==
    /\ tape' = tape
    /\ out' = out /\ inlog' = inlog
    /\ pc' = target + 1

\* the step has the effect of opcode op with the operands of the instruction
\* at pc
EffectOf(op) ==
    CASE op = "OUTPUT" ->
            /\ out' = Append(out, get_curr(tape))
            /\ tape' = tape /\ inlog' = inlog /\ pc' = pc + 1
      [] op = "INPUT" ->
            /\ Len(inlog') = Len(inlog) + 1
            /\ tape' = set_curr(tape, inlog'[Len(inlog')])
            /\ out' = out /\ pc' = pc + 1
      [] op = "JUMP_FWD" -> JumpEffect(IF get_curr(tape) = 0 THEN Fetch.jump_ref ELSE pc)
      [] op = "JUMP_BACK" -> JumpEffect(IF get_curr(tape) # 0 THEN Fetch.jump_ref ELSE pc)
      [] op = "SET_ZERO" -> TapeEffect(set_zero(tape))
      [] op = "ADD_VAL" -> TapeEffect(Ok(add(tape, Fetch.value)))
      [] op = "MV_POS" -> TapeEffect(mv_pos(tape, Fetch.value))
      [] op = "ADD_TO_NEXT" -> TapeEffect(add_to_next(tape))
      [] op = "MULTIPLY_MV" -> TapeEffect(multiply_mv(tape, Fetch.value))
      [] op = "SET_VAL" -> TapeEffect(set_val(tape, Fetch.value))
      [] op = "SCAN_RIGHT" -> TapeEffect(scan_right(tape))
      [] op = "SCAN_LEFT" -> TapeEffect(scan_left(tape))

\* C35: the interpreter's handler table is ordered like the opcode tags
\* (tag 0 runs Output, 1 Input, 2 JumpForward, 3 JumpBackward, 4 SetZero,
\* 5 AddVal, 6 MovePos, 7 AddToNext, 8 MultiplyMove, 9 SetVal, 10 ScanRight,
\* 11 ScanLeft): every executed instruction reaches the handler of its own
\* opcode and the step has that opcode's effect; every instruction the
\* compiler emits carries one of the 12 opcodes, whose tag is in 0..11.
C35_DispatchReachesTheOpcodesHandler ==
    [][/\ \A k \in 1..12 :
             /\ Tag(TagOrder[k]) = k - 1
             /\ dispatch_table[k] = HandlerOrder[k]
       /\ Len(dispatch_table) = 12
       /\ \A k \in 1..Len(bytecode') :
             /\ bytecode'[k].op \in OpCode
             /\ Tag(bytecode'[k].op) \in 0..11
       /\ \A op \in OpCode :
             Executes(op) =>
                /\ DISPATCH = HandlerOrder[Tag(op) + 1]
                /\ EffectOf(op)]_vars

\* `+>+[<]` has run: its SCAN_LEFT, the opcode with the last tag, was
\* dispatched to the last entry of the table and moved the head from 1 to
\* the zero cell at -1
C35_Witness ==
    /\ ops = Buffer(<<"+", ">", "+", "[", "<", "]">>)
    /\ phase = "done"
    /\ bytecode[4].op = "SCAN_LEFT"
    /\ dispatch_table[Tag(bytecode[4].op) + 1] = "do_scan_left"
    /\ Offset(tape) = -1
    /\ CellAt(tape, 0) = 1 /\ CellAt(tape, 1) = 1

----------------------------------------------------------------------------
(* Claims about the interpreter of src/brainfuck.cc (specification BfSpec) *)

\* the step is the 8-opcode interpreter handling op
bf_Executes(op) == bf_Handling(op) /\ <<npc, nphase, ntape, inlog, out>>' # <<npc, nphase, ntape, inlog, out>>

\* C33: in the interpreter of src/brainfuck.cc, INPUT stores the byte read
\* (end of input as 0xFF) into the current cell and the next instruction is
\* the one at pc + 1, or the run ends there, for every value read, the zero
\* byte included; the head does not move.
C33_InputContinuesAtTheNextInstruction ==
    [][bf_Executes("INPUT") =>
          /\ Len(inlog') = Len(inlog) + 1
          /\ get_curr(ntape') = inlog'[Len(inlog')] % 256
          /\ Offset(ntape') = Offset(ntape)
          /\ npc' = npc + 1
          /\ nphase' = IF npc + 1 < Len(nbytecode) THEN "run" ELSE "done"]_vars

\* C34: in the interpreter of src/brainfuck.cc every fetch of bytecode[pc]
\* has pc below the length of the sequence, the empty sequence included:
\* whenever interprete is about to dispatch, pc < bytecode.size(), and no run
\* reaches undefined behaviour.
C34_EveryFetchIsInsideTheSequence ==
    /\ nphase = "run" => npc < Len(nbytecode)
    /\ nphase # "undefined"

\* the actions agree with compile computed as a function
CompileAgrees ==
    (phase # "compile") => \E g \in {"]", "?"} : bytecode = compile(ops, g).bytecode

====
